---- MODULE Spec2Model ----
(***************************************************************************)
(* State-machine model of UsenetStreamer's resolution cache                *)
(* (nzbdavCache.js: nzbdavStreamCache, failedDownloadUrlCache), the cache  *)
(* index (clearAllCaches) and the nzbdav2 WebSocket completion watcher     *)
(* (waiters, handleMessage).                                               *)
(*                                                                         *)
(* Time is Date.now() in milliseconds.  JavaScript null / undefined        *)
(* timestamps and ids are modelled by 0 (both are falsy in the code's      *)
(* `x && ...` tests, and Date.now() is never 0).                           *)
(***************************************************************************)
EXTENDS Integers, Sequences, FiniteSets, TLC

VARIABLES
    now,                      \* Date.now()
    NZBDAV_CACHE_TTL_MS,      \* part_002:45
    NEGATIVE_CACHE_TTL_MS,    \* part_002:46
    nzbdavStreamCache,        \* part_002:38   cacheKey -> entry
    failedDownloadUrlCache,   \* part_002:42   downloadUrl -> entry
    builderCalls,             \* number of builder() invocations so far (part_002:192)
    attempts,                 \* the unsettled promises created at part_002:191: attempt -> key, calls that joined it
    returned,                 \* what the calls that returned or threw in the last step gave their callers
    undisturbed,              \* history: attempts in flight that started on an empty key and whose pending entry was never cleared
    supplanted,               \* history: keys whose latest failed entry was replaced by another attempt's settlement
    lookedUp,                 \* what the last isDownloadUrlFailed call returned
    inFlightDownloads,        \* the shared in-flight tracker: download urls with a registered external job
    externalJobs,             \* download url -> external jobs running at the backend
    waiters,                  \* health/index.js:482   nzoId -> waiter id (0: no entry)
    waiterPromises,           \* the promises made by waitForHistoryEvent, with their timers
    delivered,                \* the resolve / reject calls of the last step, with their arguments
    uncaught,                 \* the last handleMessage call threw
    ws,                       \* health/index.js:474   the socket held (0: null)
    sockets,                  \* the sockets that have listeners attached and are not closed
    socketsMade,              \* number of new WebSocket(url) so far
    connected,                \* health/index.js:475
    authenticated,            \* health/index.js:476
    reconnectTimer,           \* health/index.js:477   the delay the pending timer was set with (0: null)
    reconnectDelay,           \* health/index.js:478
    consecutiveFailures,      \* history: closes since the last open
    failuresBeforeOpen,       \* history: closes between the last two opens
    pendingTimers,            \* history: reconnect timers set and neither fired nor cleared
    instantCache,             \* cache/instantCache.js:25   loaded (false: null) and the object held
    instantFile,              \* the file INSTANT_CACHE_FILE: whether it exists, whether it is JSON, its content
    INSTANT_CACHE_TTL_MS,     \* cache/instantCache.js:19
    instantReturned,          \* what the last getInstantCacheEntry call returned
    saveFailed,               \* history: the last saveInstantCache of this process caught a write error
    blocklist,                \* blocklist/index.js:134  the patterns of the checker, each with its regex
    blocked,                  \* the last isBlocked call: its title and what it returned
    verdicts,                 \* history: what isBlocked returned for each title the first time
    matchCall,                \* the last findMatchingHistoryItems call: its arguments and its result
    triaged,                  \* the last batch of search results matched against the history, and who claimed what
    chain,                    \* the playback request being served: its candidates and the attempts made
    overall,                  \* the last answer of runHealthChecks: the six statuses and the overall status
    probe                     \* the NNTP connection probe of checkUsenet

vars == <<now, NZBDAV_CACHE_TTL_MS, NEGATIVE_CACHE_TTL_MS, nzbdavStreamCache,
          failedDownloadUrlCache, builderCalls, attempts, returned, undisturbed,
          supplanted, lookedUp, inFlightDownloads, externalJobs, waiters, waiterPromises,
          delivered, uncaught, ws, sockets, socketsMade, connected, authenticated,
          reconnectTimer, reconnectDelay, consecutiveFailures, failuresBeforeOpen,
          pendingTimers, instantCache, instantFile, INSTANT_CACHE_TTL_MS, instantReturned,
          saveFailed, blocklist, blocked, verdicts, matchCall, triaged, chain, overall, probe>>

cfgVars == <<now, NZBDAV_CACHE_TTL_MS, NEGATIVE_CACHE_TTL_MS>>
histVars == <<undisturbed, supplanted>>
cacheVars == <<nzbdavStreamCache, builderCalls, attempts, returned, histVars>>
negVars == <<failedDownloadUrlCache, lookedUp>>
trackerVars == <<inFlightDownloads, externalJobs>>
waiterVars == <<waiters, waiterPromises, delivered, uncaught>>
connVars == <<ws, sockets, socketsMade, connected, authenticated, reconnectTimer,
              reconnectDelay, consecutiveFailures, failuresBeforeOpen, pendingTimers>>
wsVars == <<waiterVars, connVars>>
instantVars == <<instantCache, instantFile, INSTANT_CACHE_TTL_MS, instantReturned, saveFailed>>
healthVars == <<overall, probe>>
matchVars == <<blocklist, blocked, verdicts, matchCall, triaged, chain, healthVars>>

----------------------------------------------------------------------------
(* Bounds of the model *)

\* builder() invocations per behaviour
MaxAttempts == 3
\* calls that join one pending attempt
MaxJoined == 1
\* clock ticks per behaviour
MaxTicks == 2
\* waitForHistoryEvent calls per behaviour
MaxWaiters == 2
\* new WebSocket(url) per behaviour
MaxSockets == 8
\* one clock tick (five minutes, in ms)
TickMs == 5 * 60 * 1000

Urls == {"u1", "u2", "u3", "u4"}

\* the urls the requests of the cache specifications are about
RequestedUrls == {"u1", "u2"}

\* buildNzbdavCacheKey(downloadUrl, category): parts.join('::'), kept as the tuple of parts
buildNzbdavCacheKey(downloadUrl, category) == <<downloadUrl, category>>

CacheKeys == {buildNzbdavCacheKey("u1", "Movies"),
              buildNzbdavCacheKey("u1", "Tv")}

----------------------------------------------------------------------------
(* Errors a builder can throw.  message is the sequence of the characters   *)
(* of error.message, code is error.code ("" when absent).                   *)

Chars(w) ==
    CASE w = "Timeout"         -> <<"T","i","m","e","o","u","t">>
      [] w = "timeout"         -> <<"t","i","m","e","o","u","t">>
      [] w = "ETIMEDOUT"       -> <<"E","T","I","M","E","D","O","U","T">>
      [] w = "ESOCKETTIMEDOUT" -> <<"E","S","O","C","K","E","T","T","I","M","E","D","O","U","T">>
      [] w = "failed"          -> <<"f","a","i","l","e","d">>
      [] w = "boom"            -> <<"b","o","o","m">>
      [] w = "read"            -> <<"r","e","a","d">>
      [] w = " "               -> <<" ">>

ErrorNames == {"backend", "backendTimeout", "timeout", "etimedout", "other"}

ErrorObject(e) ==
    CASE e = "backend" ->
           [isNzbdavFailure |-> TRUE,  message |-> Chars("failed"), code |-> ""]
      [] e = "backendTimeout" ->
           [isNzbdavFailure |-> TRUE,
            message |-> Chars("failed") \o Chars(" ") \o Chars("read") \o Chars(" ") \o Chars("timeout"),
            code |-> ""]
      [] e = "timeout" ->
           [isNzbdavFailure |-> FALSE, message |-> Chars("Timeout") \o Chars(" ") \o Chars("read"), code |-> ""]
      [] e = "etimedout" ->
           [isNzbdavFailure |-> FALSE, message |-> Chars("boom"), code |-> "ETIMEDOUT"]
      [] e = "other" ->
           [isNzbdavFailure |-> FALSE, message |-> Chars("boom"), code |-> ""]

\* String.prototype.includes
includes(s, sub) ==
    \E i \in 1..(Len(s) - Len(sub) + 1) : SubSeq(s, i, i + Len(sub) - 1) = sub

isTimeoutError(error) ==
    \/ includes(error.message, Chars("Timeout"))
    \/ includes(error.message, Chars("timeout"))
    \/ includes(error.message, Chars("ETIMEDOUT"))
    \/ includes(error.message, Chars("ESOCKETTIMEDOUT"))
    \/ error.code = "ETIMEDOUT"
    \/ error.code = "ESOCKETTIMEDOUT"

----------------------------------------------------------------------------
(* Configuration *)

DEFAULT_TTL_MS == 24 * 60 * 60 * 1000

TIMEOUT_PENDING_TTL_MS == 10 * 60 * 1000

\* Number(process.env.X) for the values tried, in thousandths; finite is
\* Number.isFinite (Number(undefined) and Number("abc") are NaN).
EnvValues == {"unset", "abc", "0", "5", "0.25", "0.1", "-1"}

NumberOf(raw) ==
    CASE raw = "unset" -> [finite |-> FALSE, milli |-> 0]
      [] raw = "abc"   -> [finite |-> FALSE, milli |-> 0]
      [] raw = "0"     -> [finite |-> TRUE,  milli |-> 0]
      [] raw = "5"     -> [finite |-> TRUE,  milli |-> 5000]
      [] raw = "0.25"  -> [finite |-> TRUE,  milli |-> 250]
      [] raw = "0.1"   -> [finite |-> TRUE,  milli |-> 100]
      [] raw = "0.005" -> [finite |-> TRUE,  milli |-> 5]
      [] raw = "-1"    -> [finite |-> TRUE,  milli |-> -1000]

\* raw * 60 * 1000, raw being milli / 1000
CacheTtlFromEnv(raw) ==
    LET n == NumberOf(raw)
    IN  IF n.finite /\ n.milli >= 0 THEN n.milli * 60 ELSE DEFAULT_TTL_MS

\* negativeRaw * 60 * 60 * 1000, negativeRaw being milli / 1000
NegativeTtlFromEnv(raw) ==
    LET n == NumberOf(raw)
    IN  IF n.finite /\ n.milli >= 0 THEN n.milli * 60 * 60 ELSE DEFAULT_TTL_MS

----------------------------------------------------------------------------
(* Resolution cache: entries, promises *)

NoEntry == [status |-> "none", by |-> 0, error |-> "", expiresAt |-> 0]

\* by: the attempt whose promise (pending), payload (ready) or error object
\* (failed, timeout_pending) the entry holds
PendingEntry(a) == [status |-> "pending", by |-> a, error |-> "", expiresAt |-> 0]

ReadyEntry(a) ==
    [status |-> "ready", by |-> a, error |-> "",
     expiresAt |-> IF NZBDAV_CACHE_TTL_MS > 0 THEN now + NZBDAV_CACHE_TTL_MS ELSE 0]

FailedEntry(a, e) ==
    [status |-> "failed", by |-> a, error |-> e,
     expiresAt |-> IF NZBDAV_CACHE_TTL_MS > 0 THEN now + NZBDAV_CACHE_TTL_MS ELSE 0]

TimeoutPendingEntry(a, e) ==
    [status |-> "timeout_pending", by |-> a, error |-> e,
     expiresAt |-> now + TIMEOUT_PENDING_TTL_MS]

\* entry.expiresAt && entry.expiresAt <= now
Expired(entry) == entry.expiresAt # 0 /\ entry.expiresAt <= now

\* Mutant: the early return on a ttl <= 0 (line 128) is missing.
cleanupNzbdavCache_AlwaysSweeps(cache) ==
    [k \in CacheKeys |-> IF Expired(cache[k]) THEN NoEntry ELSE cache[k]]

\* the cache after cleanupNzbdavCache()
cleanupNzbdavCache(cache) ==
    IF NZBDAV_CACHE_TTL_MS <= 0 THEN cache
    ELSE [k \in CacheKeys |-> IF Expired(cache[k]) THEN NoEntry ELSE cache[k]]

\* outcome of a promise: settled is "pending", "ok" (payload of attempt by) or
\* "err" (error object error thrown by attempt by)
Unsettled == [settled |-> "pending", by |-> 0, error |-> ""]
Fulfilled(a) == [settled |-> "ok", by |-> a, error |-> ""]
Rejected(a, e) == [settled |-> "err", by |-> a, error |-> e]

\* the attempts in flight for key k
Running(k) == {a \in DOMAIN attempts : attempts[a].key = k}

\* Mutant: the pending branch (lines 177-179) is missing.
StartsNewAttempt_IgnoresPending(existing) ==
    /\ existing.status # "ready"
    /\ existing.status # "failed"

\* Mutant: the failed branch (lines 180-182) is missing.
StartsNewAttempt_IgnoresFailed(existing) ==
    /\ existing.status # "ready"
    /\ existing.status # "pending"

\* Mutant: a timeout_pending entry (lines 183-187) is served like a failed one.
StartsNewAttempt_TimeoutPendingBlocks(existing) ==
    existing.status = "none"

\* getOrCreateNzbdavStream falls through to a new attempt (lines 169-189)
StartsNewAttempt(existing) ==
    /\ existing.status # "ready"
    /\ existing.status # "pending"
    /\ existing.status # "failed"

\* what the call returns or throws on the spot (lines 170-182)
CachedOutcome(existing) ==
    CASE existing.status = "ready"   -> Fulfilled(existing.by)
      [] existing.status = "failed"  -> Rejected(existing.by, existing.error)
      [] OTHER                       -> Unsettled

\* Mutant: the timeout branch (lines 213-223) caches the error as a failure.
EntryAfterError_TimeoutFails(a, e) ==
    IF ErrorObject(e).isNzbdavFailure \/ isTimeoutError(ErrorObject(e)) THEN FailedEntry(a, e)
    ELSE NoEntry

\* Mutant: the delete of lines 224-227 is missing.
EntryAfterError_OtherStaysPending(a, e) ==
    IF ErrorObject(e).isNzbdavFailure THEN FailedEntry(a, e)
    ELSE IF isTimeoutError(ErrorObject(e)) THEN TimeoutPendingEntry(a, e)
    ELSE PendingEntry(a)

\* the entry the catch block (lines 205-227) leaves for error e of attempt a
EntryAfterError(a, e) ==
    IF ErrorObject(e).isNzbdavFailure THEN FailedEntry(a, e)
    ELSE IF isTimeoutError(ErrorObject(e)) THEN TimeoutPendingEntry(a, e)
    ELSE NoEntry

\* one call of getOrCreateNzbdavStream as its caller sees it: found is the
\* status read at line 159, promise the attempt it awaits (0: none), invoked
\* whether this call ran builder(), result what it returned or threw
CallRecord(k, found, a, invoked, result) ==
    [key |-> k, found |-> found, promise |-> a, invoked |-> invoked, result |-> result]

----------------------------------------------------------------------------
(* Resolution cache: operations.  Each constrains the resolution cache, the  *)
(* clock and the configuration; what it leaves alone besides is stated      *)
(* where it is used.                                                        *)

\* the keys cleanupNzbdavCache() removes
CleanedUp == {k \in CacheKeys : cleanupNzbdavCache(nzbdavStreamCache)[k] # nzbdavStreamCache[k]}

getOrCreateNzbdavStream(cacheKey) ==
    /\ LET cleaned == cleanupNzbdavCache(nzbdavStreamCache)
           existing == cleaned[cacheKey]
           a == builderCalls + 1
       IN  IF StartsNewAttempt(existing)
           THEN /\ builderCalls < MaxAttempts
                /\ builderCalls' = a
                /\ attempts' = [x \in DOMAIN attempts \cup {a} |->
                                   IF x = a THEN [key |-> cacheKey, found |-> existing.status, joined |-> 0]
                                   ELSE attempts[x]]
                /\ nzbdavStreamCache' = [cleaned EXCEPT ![cacheKey] = PendingEntry(a)]
                /\ returned' = <<>>
                /\ undisturbed' = IF existing.status = "none" /\ Running(cacheKey) = {}
                                  THEN undisturbed \cup {a} ELSE undisturbed
                /\ supplanted' = (supplanted \ CleanedUp) \ {cacheKey}
           ELSE IF existing.status = "pending"
           THEN /\ attempts[existing.by].joined < MaxJoined
                /\ attempts' = [attempts EXCEPT ![existing.by].joined = @ + 1]
                /\ nzbdavStreamCache' = cleaned
                /\ returned' = <<>>
                /\ supplanted' = supplanted \ CleanedUp
                /\ UNCHANGED <<builderCalls, undisturbed>>
           ELSE /\ nzbdavStreamCache' = cleaned
                /\ returned' = <<CallRecord(cacheKey, existing.status, 0, FALSE, CachedOutcome(existing))>>
                /\ supplanted' = supplanted \ CleanedUp
                /\ UNCHANGED <<builderCalls, attempts, undisturbed>>
    /\ UNCHANGED cfgVars

\* every call that awaits attempt a returns or throws what a settles to: the
\* call that made it (line 204) and the calls that got existing.promise (line 178)
Settle(a, outcome, entry) ==
    /\ nzbdavStreamCache' = [nzbdavStreamCache EXCEPT ![attempts[a].key] = entry]
    /\ attempts' = [x \in DOMAIN attempts \ {a} |-> attempts[x]]
    /\ returned' = [i \in 1..(attempts[a].joined + 1) |->
                       IF i = 1 THEN CallRecord(attempts[a].key, attempts[a].found, a, TRUE, outcome)
                       ELSE CallRecord(attempts[a].key, "pending", a, FALSE, outcome)]
    /\ undisturbed' = undisturbed \ {a}
    /\ supplanted' = IF /\ nzbdavStreamCache[attempts[a].key].status = "failed"
                        /\ entry.status # "failed"
                     THEN supplanted \cup {attempts[a].key} ELSE supplanted

\* builder() fulfils: lines 192-198
BuilderFulfils(a) ==
    /\ a \in DOMAIN attempts
    /\ Settle(a, Fulfilled(a), ReadyEntry(a))
    /\ UNCHANGED <<cfgVars, builderCalls>>

\* builder() rejects with error e: lines 205-228
BuilderRejects(a, e) ==
    /\ a \in DOMAIN attempts
    /\ Settle(a, Rejected(a, e), EntryAfterError(a, e))
    /\ UNCHANGED <<cfgVars, builderCalls>>

\* the attempts whose pending entry a clear of the keys ks removes
Dropped(ks) ==
    {a \in DOMAIN attempts : /\ attempts[a].key \in ks
                             /\ nzbdavStreamCache[attempts[a].key] = PendingEntry(a)}

clearNzbdavStreamCache ==
    /\ nzbdavStreamCache' = [k \in CacheKeys |-> NoEntry]
    /\ undisturbed' = undisturbed \ Dropped(CacheKeys)
    /\ supplanted' = {}
    /\ returned' = <<>>
    /\ UNCHANGED <<cfgVars, builderCalls, attempts>>

clearNzbdavStreamCacheEntry(cacheKey) ==
    /\ nzbdavStreamCache' = [nzbdavStreamCache EXCEPT ![cacheKey] = NoEntry]
    /\ undisturbed' = undisturbed \ Dropped({cacheKey})
    /\ supplanted' = supplanted \ {cacheKey}
    /\ returned' = <<>>
    /\ UNCHANGED <<cfgVars, builderCalls, attempts>>

CleanupNzbdavCache ==
    /\ nzbdavStreamCache' = cleanupNzbdavCache(nzbdavStreamCache)
    /\ supplanted' = supplanted \ CleanedUp
    /\ returned' = <<>>
    /\ UNCHANGED <<cfgVars, builderCalls, attempts, undisturbed>>

reloadNzbdavCacheConfig(rawMinutes, rawHours) ==
    /\ NZBDAV_CACHE_TTL_MS' = CacheTtlFromEnv(rawMinutes)
    /\ NEGATIVE_CACHE_TTL_MS' = NegativeTtlFromEnv(rawHours)
    /\ returned' = <<>>
    /\ UNCHANGED <<now, nzbdavStreamCache, builderCalls, attempts, histVars>>

Tick ==
    /\ now < MaxTicks * TickMs
    /\ now' = now + TickMs
    /\ returned' = <<>>
    /\ UNCHANGED <<NZBDAV_CACHE_TTL_MS, NEGATIVE_CACHE_TTL_MS, nzbdavStreamCache,
                   builderCalls, attempts, histVars>>

----------------------------------------------------------------------------
(* Negative cache of failed download urls *)

\* failedDownloadUrlCache.get(downloadUrl) === undefined
NoFailure == [failureReason |-> "", errorCode |-> "", failedAt |-> 0, expiresAt |-> 0]

\* the cache after cleanupNegativeCache()
cleanupNegativeCache(cache) ==
    IF NEGATIVE_CACHE_TTL_MS <= 0 THEN cache
    ELSE [u \in Urls |-> IF Expired(cache[u]) THEN NoFailure ELSE cache[u]]

\* Mutant: isDownloadUrlFailed never finds an entry.
FailedLookup_AlwaysNull(downloadUrl) == NoFailure

\* Mutant: an entry is still returned at its expiry time.
FailedLookup_ExpiresLate(downloadUrl) ==
    LET entry == failedDownloadUrlCache[downloadUrl]
    IN  IF entry = NoFailure THEN NoFailure
        ELSE IF entry.expiresAt # 0 /\ entry.expiresAt < now THEN NoFailure
        ELSE entry

\* what isDownloadUrlFailed(downloadUrl) returns (NoFailure: null)
FailedLookup(downloadUrl) ==
    LET entry == cleanupNegativeCache(failedDownloadUrlCache)[downloadUrl]
    IN  IF entry = NoFailure THEN NoFailure
        ELSE IF Expired(entry) THEN NoFailure
        ELSE entry

\* the cache isDownloadUrlFailed(downloadUrl) leaves
CacheAfterLookup(downloadUrl) ==
    LET cleaned == cleanupNegativeCache(failedDownloadUrlCache)
    IN  IF cleaned[downloadUrl] # NoFailure /\ Expired(cleaned[downloadUrl])
        THEN [cleaned EXCEPT ![downloadUrl] = NoFailure]
        ELSE cleaned

\* the cache markDownloadUrlFailed(downloadUrl, failureReason, errorCode) leaves
MarkedCache(cache, downloadUrl, failureReason, errorCode) ==
    IF NEGATIVE_CACHE_TTL_MS <= 0 THEN cache
    ELSE [cache EXCEPT ![downloadUrl] =
             [failureReason |-> failureReason, errorCode |-> errorCode,
              failedAt |-> now, expiresAt |-> now + NEGATIVE_CACHE_TTL_MS]]

isDownloadUrlFailed(downloadUrl) ==
    /\ failedDownloadUrlCache' = CacheAfterLookup(downloadUrl)
    /\ lookedUp' = <<[url |-> downloadUrl, entry |-> FailedLookup(downloadUrl)]>>
    /\ UNCHANGED cfgVars

markDownloadUrlFailed(downloadUrl, failureReason, errorCode) ==
    /\ failedDownloadUrlCache' = MarkedCache(failedDownloadUrlCache, downloadUrl, failureReason, errorCode)
    /\ lookedUp' = <<>>
    /\ UNCHANGED cfgVars

clearFailedDownloadUrl(downloadUrl) ==
    /\ failedDownloadUrlCache' = [failedDownloadUrlCache EXCEPT ![downloadUrl] = NoFailure]
    /\ lookedUp' = <<>>
    /\ UNCHANGED cfgVars

clearAllFailedDownloadUrls ==
    /\ failedDownloadUrlCache' = [u \in Urls |-> NoFailure]
    /\ lookedUp' = <<>>
    /\ UNCHANGED cfgVars

getNegativeCacheStats ==
    /\ failedDownloadUrlCache' = cleanupNegativeCache(failedDownloadUrlCache)
    /\ lookedUp' = <<>>
    /\ UNCHANGED cfgVars

\* clearAllCaches(): the stream-response and verified-NZB caches it also
\* clears hold no state of this model
clearAllCaches ==
    /\ clearNzbdavStreamCache
    /\ lookedUp' = <<>>
    /\ UNCHANGED failedDownloadUrlCache

----------------------------------------------------------------------------
(* Specifications of the resolution cache *)

InitCache ==
    /\ now = 0
    /\ NZBDAV_CACHE_TTL_MS = DEFAULT_TTL_MS
    /\ NEGATIVE_CACHE_TTL_MS = DEFAULT_TTL_MS
    /\ nzbdavStreamCache = [k \in CacheKeys |-> NoEntry]
    /\ failedDownloadUrlCache = [u \in Urls |-> NoFailure]
    /\ lookedUp = <<>>
    /\ builderCalls = 0
    /\ attempts = <<>>
    /\ returned = <<>>
    /\ undisturbed = {}
    /\ supplanted = {}
    /\ inFlightDownloads = {}
    /\ externalJobs = [u \in Urls |-> 0]
    /\ waiters = [n \in {"n1", "n2"} |-> 0]
    /\ waiterPromises = <<>>
    /\ delivered = <<>>
    /\ uncaught = FALSE
    /\ ws = 0
    /\ sockets = <<>>
    /\ socketsMade = 0
    /\ connected = FALSE
    /\ authenticated = FALSE
    /\ reconnectTimer = 0
    /\ reconnectDelay = 1000
    /\ consecutiveFailures = 0
    /\ failuresBeforeOpen = 0
    /\ pendingTimers = 0
    /\ instantCache = [loaded |-> FALSE, object |-> <<>>]
    /\ instantFile = [exists |-> FALSE, json |-> FALSE, content |-> <<>>]
    /\ INSTANT_CACHE_TTL_MS = 7 * 24 * 60 * 60 * 1000
    /\ instantReturned = <<>>
    /\ saveFailed = FALSE
    /\ blocklist = <<>>
    /\ blocked = <<>>
    /\ verdicts = <<>>
    /\ matchCall = <<>>
    /\ triaged = <<>>
    /\ chain = [state |-> "idle", candidates |-> <<>>, at |-> 0, tried |-> <<>>]
    /\ overall = <<>>
    /\ probe = [phase |-> "none", settled |-> FALSE, reachedReady |-> FALSE, timer |-> FALSE,
                listeners |-> {}, streamListener |-> FALSE, outcome |-> "none", message |-> "",
                settles |-> 0, ended |-> 0, first |-> "", unhandled |-> FALSE]

\* Concurrency of the resolution cache: every key, the clock standing still.
NextCache ==
    \/ \E k \in CacheKeys : getOrCreateNzbdavStream(k) /\ UNCHANGED <<negVars, trackerVars, wsVars, instantVars, matchVars>>
    \/ \E a \in 1..MaxAttempts : BuilderFulfils(a) /\ UNCHANGED <<negVars, trackerVars, wsVars, instantVars, matchVars>>
    \/ \E a \in 1..MaxAttempts, e \in ErrorNames :
          BuilderRejects(a, e) /\ UNCHANGED <<negVars, trackerVars, wsVars, instantVars, matchVars>>
    \/ clearNzbdavStreamCache /\ UNCHANGED <<negVars, trackerVars, wsVars, instantVars, matchVars>>
    \/ \E k \in CacheKeys : clearNzbdavStreamCacheEntry(k) /\ UNCHANGED <<negVars, trackerVars, wsVars, instantVars, matchVars>>

SpecCache == InitCache /\ [][NextCache]_vars

\* Expiry of the resolution cache: one key, the clock and the configuration moving.
TtlKey == buildNzbdavCacheKey("u1", "Movies")

NextCacheTtl ==
    \/ getOrCreateNzbdavStream(TtlKey) /\ UNCHANGED <<negVars, trackerVars, wsVars, instantVars, matchVars>>
    \/ \E a \in 1..MaxAttempts : BuilderFulfils(a) /\ UNCHANGED <<negVars, trackerVars, wsVars, instantVars, matchVars>>
    \/ \E a \in 1..MaxAttempts, e \in ErrorNames :
          BuilderRejects(a, e) /\ UNCHANGED <<negVars, trackerVars, wsVars, instantVars, matchVars>>
    \/ clearNzbdavStreamCache /\ UNCHANGED <<negVars, trackerVars, wsVars, instantVars, matchVars>>
    \/ clearNzbdavStreamCacheEntry(TtlKey) /\ UNCHANGED <<negVars, trackerVars, wsVars, instantVars, matchVars>>
    \/ CleanupNzbdavCache /\ UNCHANGED <<negVars, trackerVars, wsVars, instantVars, matchVars>>
    \/ \E m \in {"unset", "0", "5"} :
          reloadNzbdavCacheConfig(m, "unset") /\ UNCHANGED <<negVars, trackerVars, wsVars, instantVars, matchVars>>
    \/ Tick /\ UNCHANGED <<negVars, trackerVars, wsVars, instantVars, matchVars>>

SpecCacheTtl == InitCache /\ [][NextCacheTtl]_vars

----------------------------------------------------------------------------
(* Claims about the resolution cache *)

\* C1: concurrent getOrCreateNzbdavStream calls that share a key and start
\* when the key has no entry invoke the builder exactly once, and every
\* caller gets that one invocation's outcome.  While an attempt that started
\* on an empty key is in flight (no clear having dropped its entry) the key
\* holds its promise and no other builder runs for the key; a call for the key
\* in that time invokes no builder; and when the attempt settles, the call that
\* made it and every call that joined it receive the same outcome.
C1_JoinStep ==
    \A a \in undisturbed :
        /\ getOrCreateNzbdavStream(attempts[a].key) =>
              /\ builderCalls' = builderCalls
              /\ attempts'[a].joined = attempts[a].joined + 1
        /\ a \notin DOMAIN attempts' =>
              /\ Len(returned') = attempts[a].joined + 1
              /\ \A i \in DOMAIN returned' :
                    /\ returned'[i].promise = a
                    /\ returned'[i].result = returned'[1].result
                    /\ returned'[i].result.by = a
                    /\ returned'[i].invoked = (i = 1)

C1_SingleFlight ==
    /\ [](\A a \in undisturbed :
             /\ a \in DOMAIN attempts
             /\ nzbdavStreamCache[attempts[a].key] = PendingEntry(a)
             /\ Running(attempts[a].key) = {a})
    /\ [][C1_JoinStep]_vars

C1_Witness ==
    /\ builderCalls = 1
    /\ Len(returned) >= 2
    /\ returned[1].invoked /\ ~returned[2].invoked
    /\ returned[2].found = "pending"
    /\ returned[1].result = Fulfilled(1)
    /\ returned[2].result = Fulfilled(1)

\* C2: in every reachable state at most one resolution (builder invocation) is
\* in flight per cache key, whatever calls, completions, expiries and clears
\* interleave.
C2_AtMostOneInFlight ==
    \A k \in CacheKeys : Cardinality(Running(k)) <= 1

\* C3: an entry never moves from failed back to pending implicitly: while the
\* entry is failed a call starts no new attempt, and a call can start a new
\* attempt for the key only after the failed entry was removed by expiry or by
\* an explicit clear (not after another attempt's settlement replaced it).
C3_NoImplicitRetry ==
    \A k \in CacheKeys :
        LET existing == cleanupNzbdavCache(nzbdavStreamCache)[k]
        IN  /\ (nzbdavStreamCache[k].status = "failed" /\ existing # NoEntry)
                  => ~StartsNewAttempt(existing)
            /\ k \in supplanted => ~StartsNewAttempt(existing)

\* C4 as stated: a resolution whose builder ends with a timeout error
\* (isTimeoutError) leaves the key's entry in timeout_pending, never in failed,
\* and the caller gets the error.
C4_TimeoutLeavesTimeoutPending ==
    \A i \in DOMAIN returned :
        LET r == returned[i]
        IN  (/\ r.invoked
             /\ r.result.settled = "err"
             /\ isTimeoutError(ErrorObject(r.result.error)))
            => /\ nzbdavStreamCache[r.key] = TimeoutPendingEntry(r.promise, r.result.error)
               /\ r.result = Rejected(r.promise, r.result.error)

\* C4 amended: a resolution whose builder ends with a timeout error that is
\* not flagged isNzbdavFailure leaves the key's entry in timeout_pending
\* (expiring TIMEOUT_PENDING_TTL_MS later), never in failed, and the caller
\* gets the error.
C4_UnflaggedTimeoutLeavesTimeoutPending ==
    \A i \in DOMAIN returned :
        LET r == returned[i]
        IN  (/\ r.invoked
             /\ r.result.settled = "err"
             /\ isTimeoutError(ErrorObject(r.result.error))
             /\ ~ErrorObject(r.result.error).isNzbdavFailure)
            => /\ nzbdavStreamCache[r.key] = TimeoutPendingEntry(r.promise, r.result.error)
               /\ nzbdavStreamCache[r.key].status # "failed"
               /\ r.result = Rejected(r.promise, r.result.error)

C4_Witness ==
    /\ returned # <<>>
    /\ returned[1].invoked
    /\ returned[1].result = Rejected(returned[1].promise, "etimedout")
    /\ nzbdavStreamCache[returned[1].key].status = "timeout_pending"
    /\ nzbdavStreamCache[returned[1].key].expiresAt = now + TIMEOUT_PENDING_TTL_MS
    /\ now > 0

\* C5: while a key's entry is ready or failed and has not expired, a
\* getOrCreateNzbdavStream call for the key never invokes the builder: for
\* ready it returns the cached payload, for failed it throws the cached error.
C5_CallStep ==
    \A k \in CacheKeys :
        (/\ nzbdavStreamCache[k].status \in {"ready", "failed"}
         /\ ~Expired(nzbdavStreamCache[k])
         /\ getOrCreateNzbdavStream(k))
        => /\ builderCalls' = builderCalls
           /\ attempts' = attempts
           /\ nzbdavStreamCache'[k] = nzbdavStreamCache[k]
           /\ Len(returned') = 1
           /\ ~returned'[1].invoked
           /\ returned'[1].result =
                 IF nzbdavStreamCache[k].status = "ready"
                 THEN Fulfilled(nzbdavStreamCache[k].by)
                 ELSE Rejected(nzbdavStreamCache[k].by, nzbdavStreamCache[k].error)

C5_CachedOutcomeServed == [][C5_CallStep]_vars

C5_Witness ==
    /\ returned # <<>>
    /\ ~returned[1].invoked
    /\ returned[1].found = "failed"
    /\ returned[1].result.settled = "err"
    /\ nzbdavStreamCache[returned[1].key].status = "failed"
    /\ now > 0

----------------------------------------------------------------------------
(* The shared in-flight tracker (inFlightDownloads of nzbdav.js), which the  *)
(* builder consults before it creates an external job.                      *)

\* the download url a cache key was built from
UrlOf(cacheKey) == cacheKey[1]

\* the attempts in flight for download url u
RunningFor(u) == {a \in DOMAIN attempts : UrlOf(attempts[a].key) = u}

\* builder() starts: atomic check-and-register; a registered job is reused,
\* otherwise a new external job is enqueued
checkAndRegister(downloadUrl) ==
    IF downloadUrl \in inFlightDownloads
    THEN UNCHANGED trackerVars
    ELSE /\ inFlightDownloads' = inFlightDownloads \cup {downloadUrl}
         /\ externalJobs' = [externalJobs EXCEPT ![downloadUrl] = @ + 1]

\* attempt a learns that the job ended (completed or failed at the backend);
\* the registration goes when the last attempt awaiting the job has learnt it
JobEnded(a) ==
    LET u == UrlOf(attempts[a].key)
    IN  IF RunningFor(u) = {a}
        THEN /\ inFlightDownloads' = inFlightDownloads \ {u}
             /\ externalJobs' = [externalJobs EXCEPT ![u] = 0]
        ELSE UNCHANGED trackerVars

\* the job ends at the backend with no attempt awaiting it
JobEndsOutOfBand(downloadUrl) ==
    /\ downloadUrl \in inFlightDownloads
    /\ RunningFor(downloadUrl) = {}
    /\ inFlightDownloads' = inFlightDownloads \ {downloadUrl}
    /\ externalJobs' = [externalJobs EXCEPT ![downloadUrl] = 0]
    /\ returned' = <<>>
    /\ UNCHANGED <<cfgVars, nzbdavStreamCache, builderCalls, attempts, histVars>>

\* getOrCreateNzbdavStream(cacheKey, builder) with the tracked builder
ResolveTracked(cacheKey) ==
    /\ getOrCreateNzbdavStream(cacheKey)
    /\ IF builderCalls' # builderCalls
       THEN checkAndRegister(UrlOf(cacheKey))
       ELSE UNCHANGED trackerVars

TimeoutErrors == {"timeout", "etimedout"}

\* Retries of one key: the tracked builder, the clock moving.
NextRetry ==
    \/ ResolveTracked(TtlKey) /\ UNCHANGED <<negVars, wsVars, instantVars, matchVars>>
    \/ \E a \in 1..MaxAttempts : BuilderFulfils(a) /\ JobEnded(a) /\ UNCHANGED <<negVars, wsVars, instantVars, matchVars>>
    \/ \E a \in 1..MaxAttempts :
          BuilderRejects(a, "backend") /\ JobEnded(a) /\ UNCHANGED <<negVars, wsVars, instantVars, matchVars>>
    \/ \E a \in 1..MaxAttempts, e \in TimeoutErrors :
          BuilderRejects(a, e) /\ UNCHANGED <<negVars, trackerVars, wsVars, instantVars, matchVars>>
    \/ \E u \in RequestedUrls : JobEndsOutOfBand(u) /\ UNCHANGED <<negVars, wsVars, instantVars, matchVars>>
    \/ clearNzbdavStreamCacheEntry(TtlKey) /\ UNCHANGED <<negVars, trackerVars, wsVars, instantVars, matchVars>>
    \/ Tick /\ UNCHANGED <<negVars, trackerVars, wsVars, instantVars, matchVars>>

SpecRetry == InitCache /\ [][NextRetry]_vars

\* C6: when a key's entry is timeout_pending a getOrCreateNzbdavStream call
\* starts a new attempt (the builder is invoked and the entry becomes pending
\* on it); a retry that arrives while that attempt is in flight joins it and
\* invokes no builder; and however many retries of the key there are, at the
\* same time or one after the other, no download url ever has two external
\* jobs.
C6_RetryStep ==
    LET existing == cleanupNzbdavCache(nzbdavStreamCache)[TtlKey]
    IN  ResolveTracked(TtlKey) =>
           /\ existing.status = "timeout_pending" =>
                 /\ builderCalls' = builderCalls + 1
                 /\ nzbdavStreamCache'[TtlKey] = PendingEntry(builderCalls')
                 /\ UrlOf(TtlKey) \in inFlightDownloads'
           /\ (existing.status = "pending" /\ existing.by \in DOMAIN attempts
                  /\ attempts[existing.by].found = "timeout_pending") =>
                 /\ builderCalls' = builderCalls
                 /\ externalJobs' = externalJobs

----------------------------------------------------------------------------
(* Specification of the negative cache *)

FailureCodes == {"", "NO_VIDEO_FILES"}

NextNegative ==
    \/ \E u \in RequestedUrls, c \in FailureCodes :
          markDownloadUrlFailed(u, "backend", c) /\ UNCHANGED <<cacheVars, trackerVars, wsVars, instantVars, matchVars>>
    \/ \E u \in RequestedUrls : isDownloadUrlFailed(u) /\ UNCHANGED <<cacheVars, trackerVars, wsVars, instantVars, matchVars>>
    \/ \E u \in RequestedUrls : clearFailedDownloadUrl(u) /\ UNCHANGED <<cacheVars, trackerVars, wsVars, instantVars, matchVars>>
    \/ clearAllFailedDownloadUrls /\ UNCHANGED <<cacheVars, trackerVars, wsVars, instantVars, matchVars>>
    \/ getNegativeCacheStats /\ UNCHANGED <<cacheVars, trackerVars, wsVars, instantVars, matchVars>>
    \/ clearAllCaches /\ UNCHANGED <<trackerVars, wsVars, instantVars, matchVars>>
    \/ \E h \in EnvValues :
          reloadNzbdavCacheConfig("unset", h) /\ lookedUp' = <<>>
          /\ UNCHANGED <<failedDownloadUrlCache, trackerVars, wsVars, instantVars, matchVars>>
    \/ Tick /\ lookedUp' = <<>> /\ UNCHANGED <<failedDownloadUrlCache, trackerVars, wsVars, instantVars, matchVars>>

SpecNegative == InitCache /\ [][NextNegative]_vars

----------------------------------------------------------------------------
(* Claims about the negative cache *)

\* C8: while the negative-cache TTL is zero the negative cache is disabled
\* entirely, whatever marks, clears and configuration reloads came before:
\* markDownloadUrlFailed stores no entry, and isDownloadUrlFailed reports no
\* url as failed.
C8_MarkStep ==
    \A u \in Urls, c \in FailureCodes :
        (NEGATIVE_CACHE_TTL_MS = 0 /\ markDownloadUrlFailed(u, "backend", c))
        => failedDownloadUrlCache' = failedDownloadUrlCache

C8_ZeroTtlDisables ==
    /\ [](NEGATIVE_CACHE_TTL_MS = 0 =>
             /\ \A u \in Urls : FailedLookup(u) = NoFailure
             /\ \A i \in DOMAIN lookedUp : lookedUp[i].entry = NoFailure)
    /\ [][C8_MarkStep]_vars

\* C9: clearAllCaches clears the negative cache: once it has returned,
\* isDownloadUrlFailed returns null for every url, the urls marked failed
\* before the call included.
C9_ClearStep ==
    clearAllCaches => \A u \in Urls : failedDownloadUrlCache'[u] = NoFailure

C9_ClearAllCachesClearsNegative == [][C9_ClearStep]_vars

----------------------------------------------------------------------------
(* The stream handler: how a resolution request uses the two caches          *)

Categories == {"Movies", "Tv"}

\* the negative cache once the callers have seen the outcomes records: an
\* error flagged isNzbdavFailure is marked against the download url
AfterOutcome(cache, records) ==
    IF /\ records # <<>>
       /\ records[1].result.settled = "err"
       /\ ErrorObject(records[1].result.error).isNzbdavFailure
    THEN MarkedCache(cache, UrlOf(records[1].key), records[1].result.error, "")
    ELSE cache

\* a resolution request: a url in the negative cache is rejected on the spot,
\* any other goes to getOrCreateNzbdavStream
handleStreamRequest(downloadUrl, category) ==
    LET cacheKey == buildNzbdavCacheKey(downloadUrl, category)
        failed == FailedLookup(downloadUrl)
    IN  /\ IF failed # NoFailure
           THEN /\ returned' = <<CallRecord(cacheKey, "negative", 0, FALSE,
                                            Rejected(0, failed.failureReason))>>
                /\ failedDownloadUrlCache' = CacheAfterLookup(downloadUrl)
                /\ UNCHANGED <<cfgVars, nzbdavStreamCache, builderCalls, attempts, histVars>>
           ELSE /\ getOrCreateNzbdavStream(cacheKey)
                /\ failedDownloadUrlCache' = AfterOutcome(CacheAfterLookup(downloadUrl), returned')
        /\ lookedUp' = <<>>

\* the builder of a request fulfils
StreamFulfils(a) ==
    /\ BuilderFulfils(a)
    /\ lookedUp' = <<>>
    /\ UNCHANGED failedDownloadUrlCache

\* the builder of a request rejects with error e
StreamRejects(a, e) ==
    /\ BuilderRejects(a, e)
    /\ failedDownloadUrlCache' = AfterOutcome(failedDownloadUrlCache, returned')
    /\ lookedUp' = <<>>

StreamErrors == {"backend", "other"}

NextStream ==
    \/ \E c \in Categories : handleStreamRequest("u1", c) /\ UNCHANGED <<trackerVars, wsVars, instantVars, matchVars>>
    \/ \E a \in 1..MaxAttempts : StreamFulfils(a) /\ UNCHANGED <<trackerVars, wsVars, instantVars, matchVars>>
    \/ \E a \in 1..MaxAttempts, e \in StreamErrors :
          StreamRejects(a, e) /\ UNCHANGED <<trackerVars, wsVars, instantVars, matchVars>>
    \/ clearFailedDownloadUrl("u1") /\ returned' = <<>>
          /\ UNCHANGED <<nzbdavStreamCache, builderCalls, attempts, histVars, trackerVars, wsVars, instantVars, matchVars>>
    \/ \E m \in {"unset", "5"}, h \in {"0", "0.1"} :
          reloadNzbdavCacheConfig(m, h) /\ UNCHANGED <<negVars, trackerVars, wsVars, instantVars, matchVars>>
    \/ Tick /\ UNCHANGED <<negVars, trackerVars, wsVars, instantVars, matchVars>>

SpecStream == InitCache /\ [][NextStream]_vars

\* C7: after a resolution for a download url has failed with an explicit
\* backend failure (isNzbdavFailure) the failure is on record (a failed entry
\* under the key and, the negative cache being enabled, an entry for the url),
\* and while such a record has neither expired nor been cleared every request
\* for the url is rejected on the spot: no builder is invoked.
C7_FailureOnRecord(downloadUrl, category) ==
    \/ /\ failedDownloadUrlCache[downloadUrl] # NoFailure
       /\ failedDownloadUrlCache[downloadUrl].expiresAt > now
    \/ /\ nzbdavStreamCache[buildNzbdavCacheKey(downloadUrl, category)].status = "failed"
       /\ ~Expired(nzbdavStreamCache[buildNzbdavCacheKey(downloadUrl, category)])

C7_RequestStep ==
    \A c \in Categories :
        (C7_FailureOnRecord("u1", c) /\ handleStreamRequest("u1", c))
        => /\ builderCalls' = builderCalls
           /\ attempts' = attempts
           /\ Len(returned') = 1
           /\ ~returned'[1].invoked
           /\ returned'[1].result.settled = "err"

C7_FailedRequestsRejected ==
    /\ [](\A i \in DOMAIN returned :
             LET r == returned[i]
             IN  (/\ r.invoked
                  /\ r.result.settled = "err"
                  /\ ErrorObject(r.result.error).isNzbdavFailure)
                 => /\ nzbdavStreamCache[r.key] = FailedEntry(r.promise, r.result.error)
                    /\ NEGATIVE_CACHE_TTL_MS > 0 =>
                          failedDownloadUrlCache[UrlOf(r.key)] =
                             [failureReason |-> r.result.error, errorCode |-> "",
                              failedAt |-> now, expiresAt |-> now + NEGATIVE_CACHE_TTL_MS])
    /\ [][C7_RequestStep]_vars

C7_Witness ==
    /\ builderCalls = 1
    /\ Len(returned) = 1
    /\ returned[1].found = "negative"
    /\ returned[1].result = Rejected(0, "backend")
    /\ nzbdavStreamCache[returned[1].key] = NoEntry
    /\ nzbdavStreamCache[TtlKey].status = "failed"

----------------------------------------------------------------------------
(* The nzbdav2 WebSocket completion watcher: waiters and the frames          *)
(* handleMessage gets.  A waiter is the promise waitForHistoryEvent made,   *)
(* numbered in the order of the calls, with the timer it set.               *)

NzoIds == {"n1", "n2"}

\* the slot objects tried: the three spellings of the job id, the two of the
\* status, and fail_message ("" is an absent property); the third spelling of
\* the id and the second of the status are tried where the ones before them
\* are absent, a fail_message with a failed status
Slots ==
    {s \in [nzo_id : {"", "n1"}, nzoId : {"", "n2"}, NzoId : {"", "n1"},
            status : {"", "completed", "FAILED", "extracting"}, Status : {"", "Completed"},
            fail_message : {"", "par2 failed"}] :
        /\ s.NzoId = "" \/ (s.nzo_id = "" /\ s.nzoId = "")
        /\ s.Status = "" \/ s.status = ""
        /\ s.fail_message = "" \/ s.status = "FAILED"}

NoSlot == [nzo_id |-> "", nzoId |-> "", NzoId |-> "", status |-> "", Status |-> "",
           fail_message |-> ""]

\* frames: json is what JSON.parse(raw) gives ("throws", "null" or an
\* "object"), Topic its Topic, Message what parsing Message gives ("throws"
\* for a string that is not JSON, "null" for no slot, "slot"), slot the slot
Frames ==
    [json : {"object"}, Topic : {"ha"}, Message : {"slot"}, slot : Slots]
    \cup [json : {"throws", "null"}, Topic : {""}, Message : {"null"}, slot : {NoSlot}]
    \cup [json : {"object"}, Topic : {"other"}, Message : {"slot"},
          slot : {s \in Slots : s.nzo_id = "n1" /\ s.status = "completed" /\ s.Status = ""}]
    \cup [json : {"object"}, Topic : {"ha"}, Message : {"throws", "null"}, slot : {NoSlot}]

\* a || b for strings
Or(a, b) == IF a # "" THEN a ELSE b

\* String.prototype.toLowerCase on the statuses tried
toLowerCase(str) ==
    CASE str = "Completed" -> "completed"
      [] str = "FAILED"    -> "failed"
      [] str = "Show"      -> "show"
      [] str = "S01E01"    -> "s01e01"
      [] str = "WEB"       -> "web"
      [] str = "GROUP"     -> "group"
      [] str = "Days"      -> "days"
      [] str = "Later"     -> "later"
      [] str = "BluRay"    -> "bluray"
      [] OTHER             -> str

\* line 515
NzoIdOf(slot) == Or(slot.nzo_id, Or(slot.nzoId, slot.NzoId))

\* line 518
StatusOf(slot) == toLowerCase(Or(slot.status, slot.Status))

\* line 530
FailMessageOf(slot) == Or(slot.fail_message, "Unknown NZBDav error")

\* handleMessage gets as far as waiters.get(nzoId) (lines 499-521); a frame
\* whose JSON is null makes line 506 throw before any waiter is touched
ReachesWaiters(frame) ==
    /\ frame.json = "object"
    /\ frame.Topic = "ha"
    /\ frame.Message = "slot"
    /\ NzoIdOf(frame.slot) # ""

\* a promise: state, what it settled with, its timer, and (history) whether
\* cancelWaiter was called on it
NewWaiter(nzoId) ==
    [nzoId |-> nzoId, state |-> "pending", with |-> "", failureMessage |-> "",
     timer |-> "armed", cancelled |-> FALSE]

\* resolve / reject act on a pending promise only
SettleWaiter(p, state, with, failureMessage) ==
    IF p.state = "pending"
    THEN [p EXCEPT !.state = state, !.with = with, !.failureMessage = failureMessage]
    ELSE p

\* Mutant: cancelWaiter and handleMessage leave the timer running.
clearTimeout_Forgotten(p) == p

\* clearTimeout(waiter.timer)
clearTimeout(p) == IF p.timer = "armed" THEN [p EXCEPT !.timer = "cleared"] ELSE p

\* Mutant: a failed status resolves the waiter like a completed one.
AfterEvent_FailedResolves(p, slot) ==
    IF StatusOf(slot) \in {"completed", "failed"} THEN SettleWaiter(p, "resolved", "slot", "")
    ELSE p

\* lines 527-537: what the event does to the waiter found
AfterEvent(p, slot) ==
    IF StatusOf(slot) = "completed" THEN SettleWaiter(p, "resolved", "slot", "")
    ELSE IF StatusOf(slot) = "failed"
    THEN SettleWaiter(p, "rejected", "isNzbdavFailure", FailMessageOf(slot))
    ELSE p

\* the argument of a reject call; message names what the Error's message says
NoError == [isNzbdavFailure |-> FALSE, message |-> "", failureMessage |-> "", nzoId |-> ""]

\* waiter.resolve(slot) (line 528)
ResolveCall(w, slot) == [waiter |-> w, call |-> "resolve", slot |-> slot, error |-> NoError]

\* waiter.reject(err) (lines 530-535, 621)
RejectCall(w, error) == [waiter |-> w, call |-> "reject", slot |-> NoSlot, error |-> error]

\* lines 527-536: the call the event makes on waiter w
EventCalls(w, nzoId, slot) ==
    IF StatusOf(slot) = "completed" THEN <<ResolveCall(w, slot)>>
    ELSE IF StatusOf(slot) = "failed"
    THEN <<RejectCall(w, [isNzbdavFailure |-> TRUE, message |-> "NZB failed",
                          failureMessage |-> FailMessageOf(slot), nzoId |-> nzoId])>>
    ELSE <<>>

handleMessage(frame) ==
    /\ uncaught' = (frame.json = "null")
    /\ IF ReachesWaiters(frame) /\ waiters[NzoIdOf(frame.slot)] # 0
       THEN LET nzoId == NzoIdOf(frame.slot)
                w == waiters[nzoId]
            IN  /\ waiters' = [waiters EXCEPT ![nzoId] = 0]
                /\ waiterPromises' =
                      [waiterPromises EXCEPT ![w] = AfterEvent(clearTimeout(@), frame.slot)]
                /\ delivered' = EventCalls(w, nzoId, frame.slot)
       ELSE /\ delivered' = <<>>
            /\ UNCHANGED <<waiters, waiterPromises>>
    /\ UNCHANGED <<cfgVars, cacheVars, negVars, trackerVars, instantVars, matchVars>>

waitForHistoryEvent(nzoId) ==
    /\ Len(waiterPromises) < MaxWaiters
    /\ waiterPromises' = Append(waiterPromises, NewWaiter(nzoId))
    /\ waiters' = [waiters EXCEPT ![nzoId] = Len(waiterPromises) + 1]
    /\ delivered' = <<>>
    /\ uncaught' = FALSE
    /\ UNCHANGED <<cfgVars, cacheVars, negVars, trackerVars, instantVars, matchVars>>

\* the timer of waiter w fires (lines 619-622)
TimerFires(w) ==
    /\ w \in DOMAIN waiterPromises
    /\ waiterPromises[w].timer = "armed"
    /\ waiters' = [waiters EXCEPT ![waiterPromises[w].nzoId] = 0]
    /\ waiterPromises' =
          [waiterPromises EXCEPT
              ![w] = SettleWaiter([@ EXCEPT !.timer = "fired"], "rejected", "timeout", "")]
    /\ delivered' = <<RejectCall(w, [isNzbdavFailure |-> FALSE, message |-> "Timeout waiting for WS event",
                                     failureMessage |-> "", nzoId |-> waiterPromises[w].nzoId])>>
    /\ uncaught' = FALSE
    /\ UNCHANGED <<cfgVars, cacheVars, negVars, trackerVars, instantVars, matchVars>>

cancelWaiter(nzoId) ==
    /\ IF waiters[nzoId] # 0
       THEN /\ waiterPromises' = [waiterPromises EXCEPT
                                     ![waiters[nzoId]] = [clearTimeout(@) EXCEPT !.cancelled = TRUE]]
            /\ waiters' = [waiters EXCEPT ![nzoId] = 0]
       ELSE UNCHANGED <<waiters, waiterPromises>>
    /\ delivered' = <<>>
    /\ uncaught' = FALSE
    /\ UNCHANGED <<cfgVars, cacheVars, negVars, trackerVars, instantVars, matchVars>>

NextWaiters ==
    \/ \E n \in NzoIds : waitForHistoryEvent(n) /\ UNCHANGED connVars
    \/ \E f \in Frames : handleMessage(f) /\ UNCHANGED connVars
    \/ \E w \in 1..MaxWaiters : TimerFires(w) /\ UNCHANGED connVars
    \/ \E n \in NzoIds : cancelWaiter(n) /\ UNCHANGED connVars

SpecWaiters == InitCache /\ [][NextWaiters]_vars

\* C10: an event for a tracked job id whose status is neither completed nor
\* failed is ignored: the waiter stays registered, pending, its timer armed.
C10_EventStep ==
    \A f \in Frames :
        (/\ ReachesWaiters(f)
         /\ waiters[NzoIdOf(f.slot)] # 0
         /\ StatusOf(f.slot) \notin {"completed", "failed"}
         /\ handleMessage(f))
        => /\ waiters'[NzoIdOf(f.slot)] = waiters[NzoIdOf(f.slot)]
           /\ waiterPromises'[waiters[NzoIdOf(f.slot)]] = waiterPromises[waiters[NzoIdOf(f.slot)]]

C10_OtherStatusKeepsWaiter == [][C10_EventStep]_vars

\* C11: every waiter has a hard deadline.  A waiter that is pending and was
\* not cancelled still has its timer armed, whatever events arrived, and when
\* the timer fires the waiter is rejected with the timeout error and its id
\* has no entry in the waiter map.
C11_TimerStep ==
    \A w \in DOMAIN waiterPromises :
        (waiterPromises[w].state = "pending" /\ TimerFires(w))
        => /\ waiterPromises'[w].state = "rejected"
           /\ waiterPromises'[w].with = "timeout"
           /\ waiters'[waiterPromises[w].nzoId] = 0

C11_HardDeadline ==
    /\ [](\A w \in DOMAIN waiterPromises :
             (waiterPromises[w].state = "pending" /\ ~waiterPromises[w].cancelled)
             => waiterPromises[w].timer = "armed")
    /\ [][C11_TimerStep]_vars

\* C12: on an event for a tracked job id a completed status resolves the
\* waiter registered for the id with the event's slot, a failed status rejects
\* it with an error flagged isNzbdavFailure that carries the backend's failure
\* message; either way the id leaves the waiter map and the timer is cleared.
\* A waiter is settled at most once: resolve and reject are only ever called
\* on a pending waiter, and a settled waiter keeps its state.
C12_EventStep ==
    \A f \in Frames :
        (/\ ReachesWaiters(f)
         /\ waiters[NzoIdOf(f.slot)] # 0
         /\ StatusOf(f.slot) \in {"completed", "failed"}
         /\ handleMessage(f))
        => LET n == NzoIdOf(f.slot)
               w == waiters[n]
           IN  /\ waiters'[n] = 0
               /\ waiterPromises'[w].timer = "cleared"
               /\ StatusOf(f.slot) = "completed" =>
                     /\ waiterPromises'[w].state = "resolved"
                     /\ delivered' = <<[waiter |-> w, call |-> "resolve", slot |-> f.slot,
                                        error |-> NoError]>>
               /\ StatusOf(f.slot) = "failed" =>
                     /\ waiterPromises'[w].state = "rejected"
                     /\ waiterPromises'[w].with = "isNzbdavFailure"
                     /\ Len(delivered') = 1
                     /\ delivered'[1].waiter = w
                     /\ delivered'[1].call = "reject"
                     /\ delivered'[1].error.isNzbdavFailure
                     /\ delivered'[1].error.nzoId = n
                     /\ delivered'[1].error.failureMessage =
                           IF f.slot.fail_message = "" THEN "Unknown NZBDav error"
                           ELSE f.slot.fail_message

C12_OnceStep ==
    /\ \A i \in DOMAIN delivered' : waiterPromises[delivered'[i].waiter].state = "pending"
    /\ \A w \in DOMAIN waiterPromises :
          waiterPromises[w].state # "pending" => waiterPromises'[w].state = waiterPromises[w].state

C12_EventSettlesWaiter ==
    /\ [](\A n \in NzoIds :
             waiters[n] # 0 => /\ waiterPromises[waiters[n]].state = "pending"
                               /\ waiterPromises[waiters[n]].timer = "armed")
    /\ [][C12_EventStep /\ C12_OnceStep]_vars

C12_Witness ==
    /\ Len(delivered) = 1
    /\ delivered[1].call = "reject"
    /\ delivered[1].error.isNzbdavFailure
    /\ delivered[1].error.failureMessage = "par2 failed"
    /\ waiterPromises[delivered[1].waiter].state = "rejected"
    /\ waiterPromises[delivered[1].waiter].timer = "cleared"
    /\ waiters[delivered[1].error.nzoId] = 0
    /\ \E w \in DOMAIN waiterPromises : waiterPromises[w].state = "resolved"

\* C13: cancelWaiter(nzoId) leaves no leaked state: after it the waiter map
\* has no entry for nzoId and the cancelled waiter's timer is cleared, and a
\* cancelled waiter is never settled by a later event or timeout; cancelling an
\* id with no waiter changes nothing.
C13_CancelStep ==
    \A n \in NzoIds :
        cancelWaiter(n) =>
           /\ waiters'[n] = 0
           /\ waiters[n] # 0 => /\ waiterPromises'[waiters[n]].timer = "cleared"
                                /\ waiterPromises'[waiters[n]].state = "pending"
           /\ waiters[n] = 0 => UNCHANGED <<waiters, waiterPromises>>

C13_CancelLeavesNothing ==
    /\ [](\A w \in DOMAIN waiterPromises :
             waiterPromises[w].cancelled =>
                /\ waiterPromises[w].state = "pending"
                /\ waiterPromises[w].timer = "cleared"
                /\ waiters[waiterPromises[w].nzoId] # w)
    /\ [][C13_CancelStep]_vars

C13_Witness ==
    /\ Len(waiterPromises) >= 2
    /\ waiterPromises[1].cancelled
    /\ waiterPromises[1].state = "pending"
    /\ waiterPromises[2].nzoId = waiterPromises[1].nzoId
    /\ waiterPromises[2].state = "resolved"

\* C18: a malformed or irrelevant frame (unparseable JSON, JSON null, a topic
\* other than 'ha', an unparseable inner message, no job id) is skipped: no
\* waiter is settled or removed and no error escapes handleMessage.
C18_SkipStep ==
    \A f \in Frames :
        (~ReachesWaiters(f) /\ handleMessage(f))
        => /\ UNCHANGED <<waiters, waiterPromises>>
           /\ delivered' = <<>>
           /\ ~uncaught'

C18_MalformedFramesSkipped == [][C18_SkipStep]_vars

----------------------------------------------------------------------------
(* The nzbdav2 WebSocket client: the connection.  The watcher is configured  *)
(* (NZBDAV_URL and NZBDAV_WS_API_KEY are set).  A socket is in `sockets`    *)
(* while it has listeners attached and has not closed; only such a socket   *)
(* delivers events.                                                         *)

isConfigured == TRUE

MAX_RECONNECT_DELAY == 30000

\* Math.min
Min(a, b) == IF a <= b THEN a ELSE b

\* Mutant: the delay doubles without the cap.
NextDelay_Uncapped(delay) == delay * 2

\* line 597
NextDelay(delay) == Min(delay * 2, MAX_RECONNECT_DELAY)

\* Mutant: the open handler keeps the delay.
DelayAfterOpen_Kept(delay) == delay

\* line 551
DelayAfterOpen(delay) == 1000

\* Mutant: cleanup leaves the old socket its listeners.
SocketsAfterCleanup_Skipped(socks, cur) == socks

\* lines 605-608: the socket held loses its listeners and is closed
SocketsAfterCleanup(socks, cur) == [x \in DOMAIN socks \ {cur} |-> socks[x]]

isConnected == connected /\ authenticated

\* Mutant: an inbound frame does not authenticate.
AuthenticatedAfterMessage_Unchanged(auth) == auth

\* lines 563-566
AuthenticatedAfterMessage(auth) == IF ~auth THEN TRUE ELSE auth

\* new WebSocket(url) with the four listeners attached
NewSocket == [state |-> "connecting", opened |-> FALSE, sent |-> <<>>, received |-> FALSE]

\* what the connection operations leave alone
ConnFrame ==
    /\ delivered' = <<>>
    /\ uncaught' = FALSE
    /\ UNCHANGED <<cfgVars, cacheVars, negVars, trackerVars, instantVars, matchVars, waiters, waiterPromises>>

\* connect(): cleanup() (lines 600-611), then a new socket
connect ==
    /\ isConfigured
    /\ socketsMade < MaxSockets
    /\ socketsMade' = socketsMade + 1
    /\ ws' = socketsMade + 1
    /\ sockets' = [x \in DOMAIN SocketsAfterCleanup(sockets, ws) \cup {socketsMade + 1} |->
                      IF x = socketsMade + 1 THEN NewSocket ELSE sockets[x]]
    /\ reconnectTimer' = 0
    /\ pendingTimers' = IF reconnectTimer # 0 THEN pendingTimers - 1 ELSE pendingTimers
    /\ connected' = FALSE
    /\ authenticated' = FALSE

init ==
    /\ connect
    /\ UNCHANGED <<reconnectDelay, consecutiveFailures, failuresBeforeOpen>>
    /\ ConnFrame

\* ws.on('open') of socket s; ws.send goes to the socket held
OnOpen(s) ==
    /\ s \in DOMAIN sockets
    /\ sockets[s].state = "connecting"
    /\ connected' = TRUE
    /\ reconnectDelay' = DelayAfterOpen(reconnectDelay)
    /\ sockets' = [x \in DOMAIN sockets |->
                      [state  |-> IF x = s THEN "open" ELSE sockets[x].state,
                       opened |-> (x = s) \/ sockets[x].opened,
                       sent   |-> IF x = ws THEN Append(sockets[x].sent, "NZBDAV_WS_API_KEY")
                                  ELSE sockets[x].sent,
                       received |-> sockets[x].received]]
    /\ failuresBeforeOpen' = consecutiveFailures
    /\ consecutiveFailures' = 0
    /\ UNCHANGED <<ws, socketsMade, authenticated, reconnectTimer, pendingTimers>>
    /\ ConnFrame

\* ws.on('message') of socket s
OnMessage(s, frame) ==
    /\ s \in DOMAIN sockets
    /\ sockets[s].state = "open"
    /\ authenticated' = AuthenticatedAfterMessage(authenticated)
    /\ sockets' = [sockets EXCEPT ![s].received = TRUE]
    /\ handleMessage(frame)
    /\ UNCHANGED <<ws, socketsMade, connected, reconnectTimer, reconnectDelay,
                   consecutiveFailures, failuresBeforeOpen, pendingTimers>>

\* ws.on('error') of socket s: logged; its close event follows
OnError(s) ==
    /\ s \in DOMAIN sockets
    /\ sockets[s].state # "failing"
    /\ sockets' = [sockets EXCEPT ![s].state = "failing"]
    /\ UNCHANGED <<ws, socketsMade, connected, authenticated, reconnectTimer, reconnectDelay,
                   consecutiveFailures, failuresBeforeOpen, pendingTimers>>
    /\ ConnFrame

\* Mutant: the close handler does not call scheduleReconnect().
OnClose_NoReconnect(s) ==
    /\ s \in DOMAIN sockets
    /\ connected' = FALSE
    /\ authenticated' = FALSE
    /\ ws' = 0
    /\ sockets' = [x \in DOMAIN sockets \ {s} |-> sockets[x]]
    /\ consecutiveFailures' = consecutiveFailures + 1
    /\ UNCHANGED <<reconnectTimer, reconnectDelay, pendingTimers, socketsMade, failuresBeforeOpen>>
    /\ ConnFrame

\* ws.on('close') of socket s, scheduleReconnect() included
OnClose(s) ==
    /\ s \in DOMAIN sockets
    /\ connected' = FALSE
    /\ authenticated' = FALSE
    /\ ws' = 0
    /\ sockets' = [x \in DOMAIN sockets \ {s} |-> sockets[x]]
    /\ IF reconnectTimer # 0
       THEN UNCHANGED <<reconnectTimer, reconnectDelay, pendingTimers>>
       ELSE /\ reconnectTimer' = reconnectDelay
            /\ pendingTimers' = pendingTimers + 1
            /\ reconnectDelay' = NextDelay(reconnectDelay)
    /\ consecutiveFailures' = consecutiveFailures + 1
    /\ UNCHANGED <<socketsMade, failuresBeforeOpen>>
    /\ ConnFrame

\* the reconnect timer fires (lines 593-596)
ReconnectTimerFires ==
    /\ pendingTimers > 0
    /\ socketsMade < MaxSockets
    /\ socketsMade' = socketsMade + 1
    /\ ws' = socketsMade + 1
    /\ sockets' = [x \in DOMAIN SocketsAfterCleanup(sockets, ws) \cup {socketsMade + 1} |->
                      IF x = socketsMade + 1 THEN NewSocket ELSE sockets[x]]
    /\ reconnectTimer' = 0
    /\ pendingTimers' = pendingTimers - 1
    /\ connected' = FALSE
    /\ authenticated' = FALSE
    /\ UNCHANGED <<reconnectDelay, consecutiveFailures, failuresBeforeOpen>>
    /\ ConnFrame

NextSocket ==
    \/ init
    \/ \E s \in 1..MaxSockets : OnOpen(s)
    \/ \E s \in 1..MaxSockets, f \in Frames : OnMessage(s, f)
    \/ \E s \in 1..MaxSockets : OnError(s)
    \/ \E s \in 1..MaxSockets : OnClose(s)
    \/ ReconnectTimerFires

SpecSocket == InitCache /\ [][NextSocket]_vars

\* C14: consecutive connection failures with no open in between are followed
\* by reconnect delays of 1000, 2000, 4000, 8000, 16000 ms and then 30000 ms
\* for every further one; the delay used is never below 1000 ms and never
\* above 30000 ms.
C14_ExpectedDelay ==
    CASE consecutiveFailures = 1 -> 1000
      [] consecutiveFailures = 2 -> 2000
      [] consecutiveFailures = 3 -> 4000
      [] consecutiveFailures = 4 -> 8000
      [] consecutiveFailures = 5 -> 16000
      [] OTHER                   -> 30000

C14_BackoffSequence ==
    reconnectTimer # 0 =>
       /\ reconnectTimer = C14_ExpectedDelay
       /\ reconnectTimer >= 1000
       /\ reconnectTimer <= 30000

C14_Witness ==
    /\ consecutiveFailures = 7
    /\ reconnectTimer = 30000

\* C15: the backoff resets after a successful connection: an open sets the
\* delay to 1000 ms, and the reconnect scheduled when a socket that had opened
\* closes uses 1000 ms, however many failures came before the open.
C15_ResetStep ==
    \A s \in DOMAIN sockets :
        /\ OnOpen(s) => reconnectDelay' = 1000
        /\ (sockets[s].opened /\ OnClose(s)) => /\ reconnectTimer' = 1000
                                                /\ reconnectDelay' = 2000

C15_BackoffResets == [][C15_ResetStep]_vars

C15_Witness ==
    /\ failuresBeforeOpen >= 3
    /\ consecutiveFailures = 1
    /\ reconnectTimer = 1000

\* C16: the watcher keeps a single connection: at most one socket has
\* listeners attached and is not closed (the one held in ws), and at most one
\* reconnect timer is pending (the one held in reconnectTimer).
C16_SingleConnection ==
    /\ Cardinality(DOMAIN sockets) <= 1
    /\ DOMAIN sockets \subseteq {ws}
    /\ pendingTimers <= 1
    /\ pendingTimers = (IF reconnectTimer # 0 THEN 1 ELSE 0)
    /\ ~(pendingTimers > 0 /\ DOMAIN sockets # {})

C16_Witness ==
    /\ socketsMade >= 3
    /\ ws = socketsMade
    /\ sockets[ws].state = "open"
    /\ sockets[ws].received
    /\ consecutiveFailures = 0
    /\ failuresBeforeOpen = 1

\* C17: authentication is the step from unauthenticated to authenticated at
\* the first inbound frame: a socket that opened has sent the credential token
\* as its first (and only) frame, isConnected() is true exactly while the
\* socket held has received a frame and has not closed, and authenticated
\* implies connected.
C17_ImplicitAuthentication ==
    /\ authenticated => connected
    /\ isConnected <=> (ws \in DOMAIN sockets /\ sockets[ws].received)
    /\ connected <=> (ws \in DOMAIN sockets /\ sockets[ws].opened)
    /\ \A s \in DOMAIN sockets :
          /\ sockets[s].opened <=> sockets[s].sent = <<"NZBDAV_WS_API_KEY">>
          /\ sockets[s].received => sockets[s].opened

C17_Witness ==
    /\ isConnected
    /\ socketsMade >= 2
    /\ sockets[ws].sent = <<"NZBDAV_WS_API_KEY">>
    /\ sockets[ws].state = "failing"

-----------------------------------------------------------------------------
(* Persistent instant playback cache (src/cache/instantCache.js) *)

\* Date.now(): the process starts one second after the origin of the clock, so
\* that no timestamp is 0
DateNow == now + 1000

\* INSTANT_CACHE_TTL_DAYS as the process may find it
InstantEnvValues == {"unset", "0", "0.005"}

\* raw * 24 * 60 * 60 * 1000, raw being milli / 1000
InstantTtlFromEnv(raw) ==
    LET n == NumberOf(raw)
    IN  IF n.finite /\ n.milli > 0 THEN n.milli * 24 * 60 * 60
        ELSE 7 * 24 * 60 * 60 * 1000

\* requestedEpisode: null, { season: 1, episode: 2 }, { season: 1, episode: NaN }
NoEpisode == [given |-> FALSE, season |-> 0, episode |-> 0, finite |-> FALSE]
InstantEpisodes ==
    {NoEpisode,
     [given |-> TRUE, season |-> 1, episode |-> 2, finite |-> TRUE],
     [given |-> TRUE, season |-> 1, episode |-> 0, finite |-> FALSE]}

\* the (type, id, requestedEpisode) triples the callers pass
InstantContents ==
    {c \in [type : {"movie", "series"}, id : {"tt1", "tt2"}, requestedEpisode : InstantEpisodes] :
        \/ c.type = "movie" /\ c.id = "tt1" /\ ~c.requestedEpisode.given
        \/ c.type = "series" /\ c.id = "tt2" /\ c.requestedEpisode.given /\ c.requestedEpisode.finite}

\* parts.join(':'), the parts kept apart
buildInstantCacheKey(type, id, requestedEpisode) ==
    IF requestedEpisode.given /\ requestedEpisode.finite
    THEN <<type, id, <<"S", requestedEpisode.season, "E", requestedEpisode.episode>>>>
    ELSE <<type, id>>

KeyOf(c) == buildInstantCacheKey(c.type, c.id, c.requestedEpisode)

\* entryData: a job reference and an optional path ("undefined": the property
\* is there with the value undefined)
EntryProps == {"nzoId", "videoPath"}
EntryDatas ==
    {[nzoId |-> "j1", videoPath |-> "undefined"],
     [nzoId |-> "j2", videoPath |-> "/v.mkv"]}

\* {}
EmptyObject == <<>>

\* object[prop], undefined for a property the object does not have
ReadProp(object, prop) == IF prop \in DOMAIN object THEN object[prop] ELSE "undefined"

\* delete cache[key]
DeleteKey(object, key) == [k \in DOMAIN object \ {key} |-> object[k]]

\* cache[key] = value
PutKey(object, key, value) == [k \in DOMAIN object \cup {key} |-> IF k = key THEN value ELSE object[k]]

EntryWritten_NoCachedAt(entry) ==
    [data |-> [p \in {q \in DOMAIN entry.data : entry.data[q] # "undefined"} |-> entry.data[p]],
     cachedAt |-> 0]

\* JSON.stringify of one entry: a property whose value is undefined is left out
EntryWritten(entry) ==
    [data |-> [p \in {q \in DOMAIN entry.data : entry.data[q] # "undefined"} |-> entry.data[p]],
     cachedAt |-> entry.cachedAt]

\* JSON.stringify(instantCache, null, 2): the value the text written denotes
JSONstringify(object) == [k \in DOMAIN object |-> EntryWritten(object[k])]

writeFileSync_Never(file, object, outcome) == file

\* ensureConfigDir(); fs.writeFileSync(INSTANT_CACHE_FILE, ...): the write
\* succeeds, throws before it touched the file, or throws after it truncated it
WriteOutcomes == {"ok", "threw", "truncated"}
writeFileSync(file, object, outcome) ==
    CASE outcome = "ok"        -> [exists |-> TRUE, json |-> TRUE, content |-> JSONstringify(object)]
      [] outcome = "threw"     -> file
      [] outcome = "truncated" -> [exists |-> TRUE, json |-> FALSE, content |-> EmptyObject]

\* loadInstantCache: the object parsed from the file, {} when there is no file
\* or JSON.parse throws
ObjectLoaded(file) == IF file.exists /\ file.json THEN file.content ELSE EmptyObject

\* getInstantCache(): the object in memory, loaded first when there is none
getInstantCache == IF instantCache.loaded THEN instantCache.object ELSE ObjectLoaded(instantFile)

\* saveInstantCache() after the object in memory became object
saveInstantCache(object, outcome) ==
    /\ instantCache' = [loaded |-> TRUE, object |-> object]
    /\ instantFile' = writeFileSync(instantFile, object, outcome)
    /\ saveFailed' = (outcome # "ok")

\* Mutant: no entry is ever found expired.
IsExpired_Never(entry) == FALSE

\* entry.cachedAt && TTL > 0 && Date.now() - entry.cachedAt > TTL
IsExpired(entry) ==
    /\ entry.cachedAt # 0
    /\ INSTANT_CACHE_TTL_MS > 0
    /\ DateNow - entry.cachedAt > INSTANT_CACHE_TTL_MS

\* null
NoInstantEntry == <<>>

\* the expiry branch of getInstantCacheEntry is taken for this content
Evicts(c) ==
    /\ KeyOf(c) \in DOMAIN getInstantCache
    /\ IsExpired(getInstantCache[KeyOf(c)])

\* what getInstantCacheEntry returns when the object in memory is cache:
\* null for no entry and for an expired one, the entry otherwise
EntryReturned(cache, c) ==
    IF KeyOf(c) \notin DOMAIN cache THEN NoInstantEntry
    ELSE IF IsExpired(cache[KeyOf(c)]) THEN NoInstantEntry
    ELSE <<cache[KeyOf(c)]>>

getInstantCacheEntry(c, outcome) ==
    LET cache == getInstantCache
        key == KeyOf(c)
    IN  /\ instantReturned' = EntryReturned(cache, c)
        /\ IF key \in DOMAIN cache /\ IsExpired(cache[key])
           THEN saveInstantCache(DeleteKey(cache, key), outcome)
           ELSE /\ instantCache' = [loaded |-> TRUE, object |-> cache]
                /\ outcome = "ok"
                /\ UNCHANGED <<instantFile, saveFailed>>
        /\ UNCHANGED INSTANT_CACHE_TTL_MS

setInstantCacheEntry(c, entryData, outcome) ==
    LET cache == getInstantCache
        key == KeyOf(c)
    IN  /\ saveInstantCache(PutKey(cache, key, [data |-> entryData, cachedAt |-> DateNow]), outcome)
        /\ instantReturned' = NoInstantEntry
        /\ UNCHANGED INSTANT_CACHE_TTL_MS

clearInstantCacheEntry(c, outcome) ==
    LET cache == getInstantCache
        key == KeyOf(c)
    IN  /\ IF key \in DOMAIN cache
           THEN /\ saveInstantCache(DeleteKey(cache, key), outcome)
           ELSE /\ instantCache' = [loaded |-> TRUE, object |-> cache]
                /\ outcome = "ok"
                /\ UNCHANGED <<instantFile, saveFailed>>
        /\ instantReturned' = NoInstantEntry
        /\ UNCHANGED INSTANT_CACHE_TTL_MS

clearInstantCache(outcome) ==
    /\ saveInstantCache(EmptyObject, outcome)
    /\ instantReturned' = NoInstantEntry
    /\ UNCHANGED INSTANT_CACHE_TTL_MS

\* the exported loadInstantCache(): reads the file again
loadInstantCache ==
    /\ instantCache' = [loaded |-> TRUE, object |-> ObjectLoaded(instantFile)]
    /\ instantReturned' = NoInstantEntry
    /\ UNCHANGED <<instantFile, INSTANT_CACHE_TTL_MS, saveFailed>>

\* The process stops and starts again: the module is evaluated anew
\* (instantCache = null, the ttl read from the environment), the file stays.
Restart(raw) ==
    /\ instantCache' = [loaded |-> FALSE, object |-> EmptyObject]
    /\ INSTANT_CACHE_TTL_MS' = InstantTtlFromEnv(raw)
    /\ instantReturned' = NoInstantEntry
    /\ saveFailed' = FALSE
    /\ UNCHANGED instantFile

InstantFrame == UNCHANGED <<cfgVars, cacheVars, negVars, trackerVars, wsVars, matchVars>>

NextInstant ==
    \/ \E c \in InstantContents, w \in WriteOutcomes : getInstantCacheEntry(c, w) /\ InstantFrame
    \/ \E c \in InstantContents, d \in EntryDatas, w \in WriteOutcomes :
           setInstantCacheEntry(c, d, w) /\ InstantFrame
    \/ \E c \in InstantContents, w \in WriteOutcomes : clearInstantCacheEntry(c, w) /\ InstantFrame
    \/ \E w \in WriteOutcomes : clearInstantCache(w) /\ InstantFrame
    \/ loadInstantCache /\ InstantFrame
    \/ \E raw \in InstantEnvValues : Restart(raw) /\ InstantFrame
    \/ Tick /\ UNCHANGED <<negVars, trackerVars, wsVars, instantVars, matchVars>>

SpecInstant == InitCache /\ [][NextInstant]_vars

\* two entries read alike: the same cachedAt and the same value of every property
C19_SameEntry(a, b) ==
    /\ a.cachedAt = b.cachedAt
    /\ \A p \in EntryProps : ReadProp(a.data, p) = ReadProp(b.data, p)

\* two objects hold the same keys with entries that read alike
C19_SameObject(a, b) ==
    /\ DOMAIN a = DOMAIN b
    /\ \A k \in DOMAIN a : C19_SameEntry(a[k], b[k])

\* two results of getInstantCacheEntry: both null, or entries that read alike
C20_SameReturned(a, b) ==
    /\ Len(a) = Len(b)
    /\ Len(a) = 1 => C19_SameEntry(a[1], b[1])

\* a call that stores or removes something returns: setInstantCacheEntry,
\* clearInstantCacheEntry, clearInstantCache, or a getInstantCacheEntry that
\* finds its entry expired
C19_Mutation ==
    \/ \E c \in InstantContents, d \in EntryDatas, w \in WriteOutcomes : setInstantCacheEntry(c, d, w)
    \/ \E c \in InstantContents, w \in WriteOutcomes : clearInstantCacheEntry(c, w)
    \/ \E w \in WriteOutcomes : clearInstantCache(w)
    \/ \E c \in InstantContents, w \in WriteOutcomes : Evicts(c) /\ getInstantCacheEntry(c, w)

\* a process started now would load exactly the entries that are in memory
C19_FileHoldsMemory == C19_SameObject(ObjectLoaded(instantFile), instantCache.object)

-----------------------------------------------------------------------------
(* The instant cache of a process that runs with INSTANT_CACHE_TTL_DAYS=0 *)

DaysMs == 4 * 24 * 60 * 60 * 1000

\* four days pass
DaysPass ==
    /\ now < MaxTicks * DaysMs
    /\ now' = now + DaysMs
    /\ instantReturned' = NoInstantEntry
    /\ UNCHANGED <<NZBDAV_CACHE_TTL_MS, NEGATIVE_CACHE_TTL_MS, cacheVars, negVars, trackerVars,
                   wsVars, matchVars, instantCache, instantFile, INSTANT_CACHE_TTL_MS, saveFailed>>

\* the process was started with INSTANT_CACHE_TTL_DAYS=0
InitInstantZero == InitCache /\ INSTANT_CACHE_TTL_MS = InstantTtlFromEnv("0")

NextInstantZero ==
    \/ \E c \in InstantContents, w \in WriteOutcomes : getInstantCacheEntry(c, w) /\ InstantFrame
    \/ \E c \in InstantContents, d \in EntryDatas, w \in WriteOutcomes :
           setInstantCacheEntry(c, d, w) /\ InstantFrame
    \/ \E c \in InstantContents, w \in WriteOutcomes : clearInstantCacheEntry(c, w) /\ InstantFrame
    \/ Restart("0") /\ InstantFrame
    \/ DaysPass

SpecInstantZero == InitInstantZero /\ [][NextInstantZero]_vars

\* getInstantCacheEntry is called for a content that has an entry
C21_GetStoredStep ==
    \E c \in InstantContents, w \in WriteOutcomes :
        /\ KeyOf(c) \in DOMAIN getInstantCache
        /\ getInstantCacheEntry(c, w)
        /\ instantReturned' = <<getInstantCache[KeyOf(c)]>>
        /\ KeyOf(c) \in DOMAIN instantCache'.object

\* C21: with the instant-cache ttl configured as zero, getInstantCacheEntry
\* returns a stored entry whatever its age and never evicts it.
C21_ZeroTtlNeverExpires ==
    [][(\E c \in InstantContents, w \in WriteOutcomes :
            KeyOf(c) \in DOMAIN getInstantCache /\ getInstantCacheEntry(c, w))
        => C21_GetStoredStep]_vars

-----------------------------------------------------------------------------
(* The resolution cache with NZBDAV_CACHE_TTL_MINUTES=0 *)

NextCacheZero ==
    \/ getOrCreateNzbdavStream(TtlKey) /\ UNCHANGED <<negVars, trackerVars, wsVars, instantVars, matchVars>>
    \/ \E a \in 1..MaxAttempts : BuilderFulfils(a) /\ UNCHANGED <<negVars, trackerVars, wsVars, instantVars, matchVars>>
    \/ \E a \in 1..MaxAttempts, e \in {"backend", "timeout"} :
          BuilderRejects(a, e) /\ UNCHANGED <<negVars, trackerVars, wsVars, instantVars, matchVars>>
    \/ clearNzbdavStreamCacheEntry(TtlKey) /\ UNCHANGED <<negVars, trackerVars, wsVars, instantVars, matchVars>>
    \/ CleanupNzbdavCache /\ UNCHANGED <<negVars, trackerVars, wsVars, instantVars, matchVars>>
    \/ \E m \in {"0", "5"} :
          reloadNzbdavCacheConfig(m, "unset") /\ UNCHANGED <<negVars, trackerVars, wsVars, instantVars, matchVars>>
    \/ Tick /\ UNCHANGED <<negVars, trackerVars, wsVars, instantVars, matchVars>>

SpecCacheZero == InitCache /\ [][NextCacheZero]_vars

\* a step that could expire an entry: a lookup, a sweep, the clock, a reload
C22_ExpiryStep(k) ==
    \/ getOrCreateNzbdavStream(k)
    \/ CleanupNzbdavCache
    \/ Tick
    \/ \E m \in {"0", "5"} : reloadNzbdavCacheConfig(m, "unset")

C22_Step ==
    \A k \in CacheKeys :
        (/\ NZBDAV_CACHE_TTL_MS = 0
         /\ nzbdavStreamCache[k].status \in {"ready", "failed"}
         /\ C22_ExpiryStep(k))
        => /\ nzbdavStreamCache'[k] = nzbdavStreamCache[k]
           /\ getOrCreateNzbdavStream(k) =>
                 /\ Len(returned') = 1
                 /\ ~returned'[1].invoked
                 /\ returned'[1].result = CachedOutcome(nzbdavStreamCache[k])

\* C22: with NZBDAV_CACHE_TTL_MINUTES=0 a ready or failed entry is never
\* removed by expiry and keeps being served, whether it was created before
\* the configuration was loaded (with an expiresAt) or after it (without).
C22_ZeroTtlDisablesExpiry == [][C22_Step]_vars

\* an entry created under a five-minute ttl is served past its expiresAt
C22_Witness ==
    /\ NZBDAV_CACHE_TTL_MS = 0
    /\ returned # <<>>
    /\ returned[1].found = "ready"
    /\ ~returned[1].invoked
    /\ nzbdavStreamCache[returned[1].key].status = "ready"
    /\ Expired(nzbdavStreamCache[returned[1].key])

-----------------------------------------------------------------------------
(* Blocklist checker (src/blocklist/index.js).  Strings are sequences of     *)
(* characters; a RegExp is its body, its flags and its lastIndex.            *)

\* values of NZB_BLOCKLIST_PATTERNS: "", "remux", "[xxx]", "/remux/",
\* "/remux/g", "/Remux/y", "remux,[xxx]", "/xxx/gg"
BlocklistEnvs ==
    {<<>>, <<"r","e","m","u","x">>, <<"[","x","x","x","]">>, <<"/","r","e","m","u","x","/">>, <<"/","r","e","m","u","x","/","g">>, <<"/","R","e","m","u","x","/","y">>, <<"r","e","m","u","x",",","[","x","x","x","]">>, <<"/","x","x","x","/","g","g">>}

\* titles: "", "a.remux", "REMUX", "xxx-a", "axxx", "remux.remux"
BlockTitles ==
    {<<>>, <<"a",".","r","e","m","u","x">>, <<"R","E","M","U","X">>, <<"x","x","x","-","a">>, <<"a","x","x","x">>, <<"r","e","m","u","x",".","r","e","m","u","x">>}

\* String.prototype.toLowerCase, one character at a time
LowerChar(c) ==
    CASE c = "R" -> "r" [] c = "E" -> "e" [] c = "M" -> "m" [] c = "U" -> "u"
      [] c = "X" -> "x" [] OTHER -> c

\* String.prototype.split(',')
RECURSIVE split(_)
split(str) ==
    IF \A i \in 1..Len(str) : str[i] # "," THEN <<str>>
    ELSE LET i == CHOOSE j \in 1..Len(str) : str[j] = "," /\ \A k \in 1..(j - 1) : str[k] # ","
         IN  <<SubSeq(str, 1, i - 1)>> \o split(SubSeq(str, i + 1, Len(str)))

\* String.prototype.trim (the only white space is " ")
RECURSIVE trim(_)
trim(str) ==
    IF str # <<>> /\ Head(str) = " " THEN trim(Tail(str))
    ELSE IF str # <<>> /\ str[Len(str)] = " " THEN trim(SubSeq(str, 1, Len(str) - 1))
    ELSE str

ISO_KEYWORDS == {<<"i","s","o">>, <<"i","m","g">>, <<"b","i","n">>, <<"c","u","e">>, <<"e","x","e">>}
REMUX_KEYWORDS == {<<"r","e","m","u","x">>}
ADULT_KEYWORDS ==
    {<<"x","x","x">>, <<"p","o","r","n">>, <<"w","t","f","-","p","o","r","n">>, <<"x","v","i","d","e","o","s">>,
     <<"p","o","r","n","h","u","b">>, <<"b","r","a","z","z","e","r","s">>, <<"b","a","n","g","b","r","o","s">>,
     <<"r","e","a","l","i","t","y","k","i","n","g","s">>, <<"n","a","u","g","h","t","y","a","m","e","r","i","c","a">>,
     <<"b","l","o","w","j","o","b">>, <<"g","a","n","g","b","a","n","g">>, <<"c","r","e","a","m","p","i","e">>,
     <<"m","i","l","f">>, <<"s","t","e","p","m","o","m">>, <<"s","t","e","p","s","i","s","t","e","r">>, <<"o","n","l","y","f","a","n","s">>}

\* new RegExp(body, flags): kind "word" stands for \bbody\b.  The bodies are
\* plain letters, so the regex matches its body as a literal.
RegExp(kind, body, flags) == [kind |-> kind, body |-> body, flags |-> flags, lastIndex |-> 0]

\* parsePattern: the empty sequence for null, else one matcher
parsePattern(pattern) ==
    LET trimmed == trim(pattern)
        n == Len(trimmed)
        lowerPattern == [i \in 1..n |-> LowerChar(trimmed[i])]
        category ==
            IF \E k \in ISO_KEYWORDS : includes(lowerPattern, k) THEN "iso"
            ELSE IF \E k \in REMUX_KEYWORDS : includes(lowerPattern, k) THEN "remux"
            ELSE IF \E k \in ADULT_KEYWORDS : includes(lowerPattern, k) THEN "adult"
            ELSE "other"
        \* /^\/(.+)\/([gimsuy]*)$/ : the greedy (.+) ends at the last "/" that
        \* is followed by flag letters only
        slashes == {j \in 3..n : /\ trimmed[1] = "/"
                                 /\ trimmed[j] = "/"
                                 /\ \A k \in (j + 1)..n : trimmed[k] \in {"g","i","m","s","u","y"}}
        last == CHOOSE j \in slashes : \A k \in slashes : k <= j
        given == SubSeq(trimmed, last + 1, n)
        \* new RegExp throws on a flag given twice
        valid == \A a, b \in 1..Len(given) : given[a] = given[b] => a = b
    IN  IF trimmed = <<>> THEN <<>>
        ELSE IF slashes # {}
        THEN IF valid
             THEN <<[regex |-> RegExp("regex", SubSeq(trimmed, 2, last - 1),
                                      IF given = <<>> THEN {"i"} ELSE {given[a] : a \in 1..Len(given)}),
                     source |-> trimmed, category |-> category]>>
             ELSE <<>>
        ELSE IF n >= 3 /\ trimmed[1] = "[" /\ trimmed[n] = "]"
        THEN <<[regex |-> RegExp("word", SubSeq(trimmed, 2, n - 1), {"i"}),
                source |-> trimmed, category |-> category]>>
        ELSE <<[regex |-> RegExp("literal", trimmed, {"i"}),
                source |-> trimmed, category |-> category]>>

\* trimmed.split(',').map(parsePattern).filter(Boolean)
RECURSIVE parseEach(_)
parseEach(parts) ==
    IF parts = <<>> THEN <<>> ELSE parsePattern(Head(parts)) \o parseEach(Tail(parts))

parsePatterns(patternsString) ==
    IF trim(patternsString) = <<>> THEN <<>> ELSE parseEach(split(trim(patternsString)))

\* \w
IsWordChar(c) == c \notin {".", "-", " ", ",", "/", "[", "]"}

\* RegExp.prototype.test: whether the regex matches, and the lastIndex it
\* leaves.  With the g or y flag the search starts at lastIndex (y: matches
\* there only), a match moves lastIndex past it and a failure resets it to 0.
test(regex, title) ==
    LET n == Len(regex.body)
        eq(a, b) == IF "i" \in regex.flags THEN LowerChar(a) = LowerChar(b) ELSE a = b
        word(i) == i >= 1 /\ i <= Len(title) /\ IsWordChar(title[i])
        at(p) == /\ p + n <= Len(title)
                 /\ \A k \in 1..n : eq(title[p + k], regex.body[k])
                 /\ regex.kind = "word" => (word(p) # word(p + 1)) /\ (word(p + n) # word(p + n + 1))
        stateful == "g" \in regex.flags \/ "y" \in regex.flags
        from == IF stateful THEN regex.lastIndex ELSE 0
        hits == {p \in from..Len(title) : at(p) /\ ("y" \in regex.flags => p = from)}
        first == CHOOSE p \in hits : \A r \in hits : p <= r
    IN  IF hits # {}
        THEN [matched |-> TRUE, lastIndex |-> IF stateful THEN first + n ELSE regex.lastIndex]
        ELSE [matched |-> FALSE, lastIndex |-> IF stateful THEN 0 ELSE regex.lastIndex]

NotBlocked == [blocked |-> FALSE, category |-> "null", pattern |-> <<>>]

\* createBlocklistChecker(patterns).isBlocked(title): the patterns are tried in
\* order up to the first whose regex matches
isBlocked(title) ==
    LET tried == [i \in 1..Len(blocklist) |-> test(blocklist[i].regex, title)]
        hits == {i \in 1..Len(blocklist) : tried[i].matched}
        first == CHOOSE i \in hits : \A j \in hits : i <= j
        upto == IF hits = {} THEN Len(blocklist) ELSE first
        result == IF title = <<>> \/ hits = {} THEN NotBlocked
                  ELSE [blocked |-> TRUE, category |-> blocklist[first].category,
                        pattern |-> blocklist[first].source]
    IN  /\ blocklist' = IF title = <<>> THEN blocklist
                        ELSE [i \in 1..Len(blocklist) |->
                                 IF i <= upto
                                 THEN [blocklist[i] EXCEPT !.regex.lastIndex = tried[i].lastIndex]
                                 ELSE blocklist[i]]
        /\ blocked' = <<[title |-> title, result |-> result]>>
        /\ verdicts' = IF title \in DOMAIN verdicts THEN verdicts
                       ELSE [t \in DOMAIN verdicts \cup {title} |->
                                IF t = title THEN result ELSE verdicts[t]]
        /\ UNCHANGED <<matchCall, triaged, chain, healthVars>>

\* buildBlocklistFromEnv(envValue) with NZB_BLOCKLIST_PATTERNS set: a new checker
buildBlocklistFromEnv(envValue) ==
    /\ blocklist' = IF envValue = <<>> THEN <<>> ELSE parsePatterns(envValue)
    /\ blocked' = <<>>
    /\ verdicts' = <<>>
    /\ UNCHANGED <<matchCall, triaged, chain, healthVars>>

BlockFrame == UNCHANGED <<cfgVars, cacheVars, negVars, trackerVars, wsVars, instantVars>>

NextBlocklist ==
    \/ \E e \in BlocklistEnvs : buildBlocklistFromEnv(e) /\ BlockFrame
    \/ \E t \in BlockTitles : isBlocked(t) /\ BlockFrame

SpecBlocklist == InitCache /\ [][NextBlocklist]_vars

\* C24: for every checker built from configured patterns and every title,
\* repeated isBlocked(title) calls return the same {blocked, category, pattern},
\* whatever calls were made before.
C24_StableClassification ==
    blocked # <<>> => blocked[1].result = verdicts[blocked[1].title]

-----------------------------------------------------------------------------
(* Smart history matching (src/blocklist/index.js, lines 606-853).  A title  *)
(* is the sequence of its tokens and separators; a score is kept in units    *)
(* of 1/ScoreScale, which is exact for word sets of up to six words.         *)

ScoreScale == 300

\* Math.max
Max(a, b) == IF a >= b THEN a ELSE b

QUALITY_TOKENS ==
    {"480p", "576p", "720p", "1080p", "1080i", "2160p", "4k", "uhd",
     "bluray", "bdrip", "brrip", "dvdrip", "dvdscr", "hdtv", "pdtv", "sdtv",
     "webrip", "web-dl", "webdl", "web", "hdrip", "hdcam", "cam", "ts", "tc",
     "screener", "scr", "r5", "dvd", "bd", "remux",
     "x264", "x265", "h264", "h265", "hevc", "avc", "xvid", "divx", "mpeg",
     "hdr", "hdr10", "hdr10+", "dv", "dolby", "vision", "hlg",
     "aac", "ac3", "dts", "dts-hd", "truehd", "atmos", "flac", "mp3", "dd5", "ddp5",
     "3d", "hsbs", "hou", "sbs",
     "proper", "repack", "rerip", "internal", "extended", "unrated", "directors", "cut",
     "dubbed", "dual", "multi", "subbed", "hardcoded", "hc"}

LANGUAGE_TOKENS ==
    {"english", "eng", "en", "french", "fr", "german", "de", "spanish", "es",
     "italian", "ita", "it", "dutch", "nl", "portuguese", "pt", "russian", "ru",
     "japanese", "jp", "korean", "kr", "chinese", "cn", "hindi", "hin",
     "nordic", "swedish", "danish", "norwegian", "finnish"}

\* the tokens of the titles below that consist of digits only; those of four
\* digits all begin with 19 or 20
DigitTokens == {"28", "1917", "2002", "2003", "2019"}

\* titles, as given to parseReleaseTokens
T_Show    == <<"Show", ".", "S01E01", ".", "1080p", ".", "WEB", ".", "x264", "-", "GROUP">>
T_show    == <<"show", " ", "s01e01", " ", "dvdrip">>
T_28full  == <<"28", ".", "Days", ".", "Later", ".", "2002", ".", "1080p", ".", "BluRay">>
T_28dvd   == <<"28", " ", "days", " ", "later", " ", "dvdrip">>
T_28days  == <<"28", ".", "Days", ".", "2003", ".", "720p">>
T_1917    == <<"1917", ".", "2019", ".", "1080p">>
T_later   == <<"Later", ".", "Show", ".", "2002", ".", "x264">>

SearchTitles == {<<>>, T_Show, T_28full, T_28dvd, T_28days, T_1917, T_later}

\* history entries: the key of historyMap (a normalized title) and the entry
HistoryEntries ==
    {[normalizedTitle |-> T_show,   jobName |-> <<>>,     nzoId |-> "n1"],
     [normalizedTitle |-> <<"28", " ", "days", " ", "later", " ", "2002", " ", "1080p", " ", "bluray">>,
      jobName |-> T_28full, nzoId |-> "n2"],
     [normalizedTitle |-> <<"28", " ", "days", " ", "2003", " ", "720p">>,
      jobName |-> T_28days, nzoId |-> "n3"],
     [normalizedTitle |-> <<"1917", " ", "2019", " ", "1080p">>,
      jobName |-> T_1917, nzoId |-> "n4"],
     [normalizedTitle |-> <<"later", " ", "show", " ", "2002", " ", "x264">>,
      jobName |-> T_later, nzoId |-> "n5"]}

\* historyMap in its iteration order: up to two entries with distinct keys
HistoryMaps ==
    {<<>>} \cup {<<e>> : e \in HistoryEntries}
           \cup {q \in HistoryEntries \X HistoryEntries :
                     q[1].normalizedTitle # q[2].normalizedTitle}

\* 0.01 in units of 1/ScoreScale
ScoreUnit == ScoreScale \div 100

\* options.minSimilarity in units of 1/ScoreScale: 0, 0.1, 0.35, 0.36, 7/15,
\* 7/15 + 0.01, 0.6 (the default), 1, 1.5
Thresholds == {0, 30, 105, 105 + ScoreUnit, 140, 140 + ScoreUnit, 180, ScoreScale, 450}

\* Mutant: the tokens are not split at the separators.
Tokens_Unsplit(title) == <<"">>

\* raw.replace(...).trim().split(' '): the separators . _ - ( ) [ ] { } and
\* white space go, the tokens stay; the empty title gives one empty token
Tokens(title) ==
    LET kept == SelectSeq(title, LAMBDA p : p \notin {".", "_", "-", " ", "(", ")", "[", "]", "{", "}"})
    IN  IF kept = <<>> THEN <<"">> ELSE kept

\* the loop of parseReleaseTokens (lines 659-721) from token i on
RECURSIVE ParseFrom(_, _, _)
ParseFrom(tokens, i, acc) ==
    IF i > Len(tokens) THEN acc
    ELSE LET token == tokens[i]
             lower == toLowerCase(token)
             isYear == token \in DigitTokens /\ Len(token) = 4
             isRes == lower \in {"480", "576", "720", "1080", "2160",
                                 "480p", "576p", "720p", "1080p", "2160p",
                                 "480i", "576i", "720i", "1080i", "2160i"}
             digits == token \in DigitTokens
             isWord == \/ Len(token) > 1 /\ ~digits
                       \/ Len(token) = 1 /\ ~digits
                       \/ digits /\ Len(token) <= 2
         IN  IF acc.year = "" /\ isYear
             THEN ParseFrom(tokens, i + 1, [acc EXCEPT !.year = token, !.marker = TRUE])
             ELSE IF acc.resolution = "" /\ (isRes \/ lower \in {"4k", "uhd"})
             THEN ParseFrom(tokens, i + 1, [acc EXCEPT !.resolution = lower, !.marker = TRUE])
             ELSE IF lower \in QUALITY_TOKENS
             THEN ParseFrom(tokens, i + 1, [acc EXCEPT !.marker = TRUE])
             ELSE IF lower \in LANGUAGE_TOKENS
             THEN ParseFrom(tokens, i + 1, acc)
             ELSE IF ~acc.marker /\ isWord
             THEN ParseFrom(tokens, i + 1, [acc EXCEPT !.titleWords = Append(@, lower)])
             ELSE ParseFrom(tokens, i + 1, acc)

\* parseReleaseTokens(title): the title words and the year ("": null)
parseReleaseTokens(title) ==
    LET none == [titleWords |-> <<>>, year |-> "", resolution |-> "", marker |-> FALSE]
        acc == IF title = <<>> THEN none ELSE ParseFrom(Tokens(title), 1, none)
    IN  [titleWords |-> acc.titleWords, year |-> acc.year]

\* new Set(words)
WordSet(words) == {words[i] : i \in 1..Len(words)}

calculateWordSimilarity(words1, words2) ==
    LET set1 == WordSet(words1)
        set2 == WordSet(words2)
        intersection == Cardinality(set1 \cap set2)
        union == Cardinality(set1) + Cardinality(set2) - intersection
    IN  IF words1 = <<>> \/ words2 = <<>> THEN 0
        ELSE IF union > 0 THEN (intersection * ScoreScale) \div union ELSE 0

\* Mutant: the bonus is added without Math.min(1, ...).
ScoreOf_Unclamped(titleSimilarity, yearMatch, yearMismatch) ==
    LET bonus == IF yearMatch THEN titleSimilarity + ScoreScale \div 10 ELSE titleSimilarity
    IN  IF yearMismatch THEN bonus - (2 * ScoreScale) \div 10 ELSE bonus

\* lines 773-775: 0.1 is ScoreScale / 10, 0.2 is 2 * ScoreScale / 10
ScoreOf(titleSimilarity, yearMatch, yearMismatch) ==
    LET bonus == IF yearMatch THEN Min(ScoreScale, titleSimilarity + ScoreScale \div 10)
                 ELSE titleSimilarity
    IN  IF yearMismatch THEN Max(0, bonus - (2 * ScoreScale) \div 10) ELSE bonus

calculateReleaseSimilarity(parsed1, parsed2) ==
    LET titleSimilarity == calculateWordSimilarity(parsed1.titleWords, parsed2.titleWords)
        yearMatch == parsed1.year # "" /\ parsed2.year # "" /\ parsed1.year = parsed2.year
        yearMismatch == parsed1.year # "" /\ parsed2.year # "" /\ parsed1.year # parsed2.year
    IN  [score |-> ScoreOf(titleSimilarity, yearMatch, yearMismatch),
         titleSimilarity |-> titleSimilarity,
         yearMatch |-> yearMatch,
         yearMismatch |-> yearMismatch,
         allWords1InWords2 |-> /\ parsed1.titleWords # <<>>
                               /\ WordSet(parsed1.titleWords) \subseteq WordSet(parsed2.titleWords),
         allWords2InWords1 |-> /\ parsed2.titleWords # <<>>
                               /\ WordSet(parsed2.titleWords) \subseteq WordSet(parsed1.titleWords)]

\* the title an entry is compared by: entry.jobName || normalizedTitle
TitleOf(entry) == IF entry.jobName # <<>> THEN entry.jobName ELSE entry.normalizedTitle

\* Mutant: strict mode accepts the subset condition in either direction.
IsMatch_StrictEitherWay(similarity, minSimilarity, requireAllWords) ==
    IF requireAllWords THEN similarity.allWords1InWords2 \/ similarity.allWords2InWords1
    ELSE \/ similarity.score >= minSimilarity
         \/ similarity.allWords1InWords2
         \/ similarity.allWords2InWords1

\* Mutant: the threshold test is strict.
IsMatch_Above(similarity, minSimilarity, requireAllWords) ==
    IF requireAllWords THEN similarity.allWords1InWords2
    ELSE \/ similarity.score > minSimilarity
         \/ similarity.allWords1InWords2
         \/ similarity.allWords2InWords1

\* lines 823-833
IsMatch(similarity, minSimilarity, requireAllWords) ==
    IF requireAllWords THEN similarity.allWords1InWords2
    ELSE \/ similarity.score >= minSimilarity
         \/ similarity.allWords1InWords2
         \/ similarity.allWords2InWords1

\* Mutant: the matches are returned in the order of the history map.
SortMatches_Unsorted(matches) == matches

\* matches.sort((a, b) => b.similarity - a.similarity): stable, descending
RECURSIVE SortMatches(_)
SortMatches(matches) ==
    IF matches = <<>> THEN <<>>
    ELSE LET sorted == SortMatches(SubSeq(matches, 1, Len(matches) - 1))
             x == matches[Len(matches)]
             before == SelectSeq(sorted, LAMBDA y : y.similarity >= x.similarity)
             after == SelectSeq(sorted, LAMBDA y : y.similarity < x.similarity)
         IN  before \o <<x>> \o after

\* lines 808-815: nothing to compare
ReturnsEarly(searchTitle, historyMap) ==
    \/ searchTitle = <<>>
    \/ historyMap = <<>>
    \/ parseReleaseTokens(searchTitle).titleWords = <<>>

\* lines 820-822: the similarity computed for each entry of the history map
Similarities(searchTitle, historyMap) ==
    IF ReturnsEarly(searchTitle, historyMap) THEN <<>>
    ELSE [i \in 1..Len(historyMap) |->
             calculateReleaseSimilarity(parseReleaseTokens(searchTitle),
                                        parseReleaseTokens(TitleOf(historyMap[i])))]

\* findMatchingHistoryItems(searchTitle, historyMap, { minSimilarity, requireAllWords })
findMatchingHistoryItems(searchTitle, historyMap, minSimilarity, requireAllWords) ==
    LET computed == Similarities(searchTitle, historyMap)
        all == [i \in 1..Len(computed) |->
                   [entry |-> historyMap[i],
                    normalizedTitle |-> historyMap[i].normalizedTitle,
                    similarity |-> computed[i].score,
                    details |-> computed[i]]]
    IN  SortMatches(SelectSeq(all, LAMBDA x : IsMatch(x.details, minSimilarity, requireAllWords)))

\* a caller asks for the history items that match a title
FindMatching(searchTitle, historyMap, minSimilarity, requireAllWords) ==
    /\ matchCall = <<>>
    /\ matchCall' = <<[searchTitle |-> searchTitle, historyMap |-> historyMap,
                   minSimilarity |-> minSimilarity, requireAllWords |-> requireAllWords,
                   similarities |-> Similarities(searchTitle, historyMap),
                   matches |-> findMatchingHistoryItems(searchTitle, historyMap,
                                                        minSimilarity, requireAllWords)]>>
    /\ UNCHANGED <<blocklist, blocked, verdicts, triaged, chain, healthVars>>

\* the caller is done with the result
Forget ==
    /\ matchCall # <<>>
    /\ matchCall' = <<>>
    /\ UNCHANGED <<blocklist, blocked, verdicts, triaged, chain, healthVars>>

NextMatch ==
    \/ \E t \in SearchTitles, h \in HistoryMaps, m \in Thresholds, r \in BOOLEAN :
           FindMatching(t, h, m, r) /\ BlockFrame
    \/ Forget /\ BlockFrame

SpecMatch == InitCache /\ [][NextMatch]_vars

\* the title words of a title, as a set
C25_Words(title) == WordSet(parseReleaseTokens(title).titleWords)

\* |A \cap B| / |A \cup B| in units of 1/ScoreScale, 0 when a side is empty
C25_Jaccard(a, b) ==
    IF a = {} \/ b = {} THEN 0
    ELSE (Cardinality(a \cap b) * ScoreScale) \div Cardinality(a \cup b)

\* the score the claim describes for two titles
C25_Expected(t1, t2) ==
    LET y1 == parseReleaseTokens(t1).year
        y2 == parseReleaseTokens(t2).year
        both == y1 # "" /\ y2 # ""
        raw == C25_Jaccard(C25_Words(t1), C25_Words(t2))
                 + (IF both /\ y1 = y2 THEN ScoreScale \div 10 ELSE 0)
                 - (IF both /\ y1 # y2 THEN ScoreScale \div 5 ELSE 0)
    IN  IF raw < 0 THEN 0 ELSE IF raw > ScoreScale THEN ScoreScale ELSE raw

\* C25: the score of calculateReleaseSimilarity is the Jaccard similarity of
\* the two title-word sets (0 when either list is empty), plus 0.1 when both
\* years are present and equal, minus 0.2 when both are present and differ,
\* and it always lies within [0, 1].
C25_ScoreIsClampedJaccard ==
    matchCall # <<>> =>
        \A i \in 1..Len(matchCall[1].similarities) :
            /\ matchCall[1].similarities[i].score =
                   C25_Expected(matchCall[1].searchTitle, TitleOf(matchCall[1].historyMap[i]))
            /\ matchCall[1].similarities[i].score \in 0..ScoreScale

\* equal title words and equal years (the bonus is cut at 1) next to disjoint
\* title words and different years (the penalty is cut at 0)
C25_Witness ==
    /\ matchCall # <<>>
    /\ \E i, j \in 1..Len(matchCall[1].similarities) :
           /\ matchCall[1].similarities[i].titleSimilarity = ScoreScale
           /\ matchCall[1].similarities[i].yearMatch
           /\ matchCall[1].similarities[i].score = ScoreScale
           /\ matchCall[1].similarities[j].titleSimilarity = 0
           /\ matchCall[1].similarities[j].yearMismatch
           /\ matchCall[1].similarities[j].score = 0

\* the score of entry i of the history map against the target of the call
C26_Score(i) ==
    calculateReleaseSimilarity(parseReleaseTokens(matchCall[1].searchTitle),
                               parseReleaseTokens(TitleOf(matchCall[1].historyMap[i]))).score

\* one side's title words are all among the other side's
C26_Subset(i) ==
    LET a == C25_Words(matchCall[1].searchTitle)
        b == C25_Words(TitleOf(matchCall[1].historyMap[i]))
    IN  (a # {} /\ a \subseteq b) \/ (b # {} /\ b \subseteq a)

\* entry i of the history map is among the matches returned
C26_Returned(i) ==
    \E j \in 1..Len(matchCall[1].matches) :
        matchCall[1].matches[j].entry = matchCall[1].historyMap[i]

\* C26 as stated: an entry whose score is exactly the minimum-similarity
\* threshold is a match, and an entry whose score is one unit (0.01) below
\* the threshold is not.
C26_BoundaryAsStated ==
    matchCall # <<>> =>
        \A i \in 1..Len(matchCall[1].historyMap) :
            /\ C26_Score(i) = matchCall[1].minSimilarity => C26_Returned(i)
            /\ C26_Score(i) = matchCall[1].minSimilarity - ScoreUnit => ~C26_Returned(i)

\* C26: in fuzzy mode, for a target that has title words, an entry whose score
\* is exactly the threshold is a match, and an entry whose score is one unit
\* below the threshold is a match only by the subset condition.
C26_Boundary ==
    (/\ matchCall # <<>>
     /\ ~matchCall[1].requireAllWords
     /\ C25_Words(matchCall[1].searchTitle) # {}) =>
        \A i \in 1..Len(matchCall[1].historyMap) :
            /\ C26_Score(i) = matchCall[1].minSimilarity => C26_Returned(i)
            /\ C26_Score(i) = matchCall[1].minSimilarity - ScoreUnit =>
                   (C26_Returned(i) <=> C26_Subset(i))

\* an entry exactly at the threshold, outside the subset condition, is returned
C26_Witness ==
    /\ matchCall # <<>>
    /\ ~matchCall[1].requireAllWords
    /\ \E i \in 1..Len(matchCall[1].historyMap) :
           /\ C26_Score(i) = matchCall[1].minSimilarity
           /\ ~C26_Subset(i)
           /\ C26_Returned(i)

\* the entries of the history map whose score meets the threshold or for
\* which the subset condition holds
C27_Qualifying ==
    {i \in 1..Len(matchCall[1].historyMap) :
        C26_Score(i) >= matchCall[1].minSimilarity \/ C26_Subset(i)}

\* the matches returned are the entries of the set q, each once and with its
\* score, ordered by non-increasing score
C27_ReturnsExactly(q) ==
    LET matches == matchCall[1].matches
    IN  /\ Len(matches) = Cardinality(q)
        /\ \A i \in q : \E j \in 1..Len(matches) :
               /\ matches[j].entry = matchCall[1].historyMap[i]
               /\ matches[j].similarity = C26_Score(i)
        /\ \A j \in 1..(Len(matches) - 1) : matches[j].similarity >= matches[j + 1].similarity

\* C27 as stated: findMatchingHistoryItems returns exactly the entries whose
\* score meets the threshold or that satisfy the subset condition, ordered by
\* non-increasing score.
C27_ExactlyQualifyingAsStated ==
    (matchCall # <<>> /\ ~matchCall[1].requireAllWords) => C27_ReturnsExactly(C27_Qualifying)

\* C27: in fuzzy mode, for a target with at least one title word,
\* findMatchingHistoryItems returns exactly the entries whose score meets the
\* threshold or that satisfy the subset condition, ordered by non-increasing
\* score; for a target without title words it returns nothing.
C27_ExactlyQualifying ==
    (matchCall # <<>> /\ ~matchCall[1].requireAllWords) =>
        IF C25_Words(matchCall[1].searchTitle) = {}
        THEN matchCall[1].matches = <<>>
        ELSE C27_ReturnsExactly(C27_Qualifying)

\* two entries are returned in the reverse of their order in the history map,
\* the higher score first
C27_Witness ==
    /\ matchCall # <<>>
    /\ ~matchCall[1].requireAllWords
    /\ Len(matchCall[1].matches) = 2
    /\ matchCall[1].matches[1].entry = matchCall[1].historyMap[2]
    /\ matchCall[1].matches[1].similarity > matchCall[1].matches[2].similarity

\* C28 as stated: in strict mode an entry is a match exactly when the subset
\* condition holds in either direction.
C28_StrictEitherWay ==
    (matchCall # <<>> /\ matchCall[1].requireAllWords) =>
        \A i \in 1..Len(matchCall[1].historyMap) : C26_Returned(i) <=> C26_Subset(i)

\* C28: in strict mode an entry is a match exactly when the target has title
\* words and all of them are among the entry's title words, whatever the score
\* and the threshold.
C28_StrictTargetInEntry ==
    (matchCall # <<>> /\ matchCall[1].requireAllWords) =>
        \A i \in 1..Len(matchCall[1].historyMap) :
            C26_Returned(i) <=>
                /\ C25_Words(matchCall[1].searchTitle) # {}
                /\ C25_Words(matchCall[1].searchTitle)
                       \subseteq C25_Words(TitleOf(matchCall[1].historyMap[i]))

\* strict mode returns an entry whose score is below the threshold and leaves
\* out one whose title words are all among the target's
C28_Witness ==
    /\ matchCall # <<>>
    /\ matchCall[1].requireAllWords
    /\ \E i, j \in 1..Len(matchCall[1].historyMap) :
           /\ C26_Returned(i)
           /\ C26_Score(i) < matchCall[1].minSimilarity
           /\ ~C26_Returned(j)
           /\ C26_Subset(j)

\* the call of the scenario: the target "Show.S01E01.1080p.WEB.x264-GROUP"
\* against a history that holds "show s01e01 dvdrip", in fuzzy mode
C29_Scenario(i) ==
    /\ matchCall # <<>>
    /\ ~matchCall[1].requireAllWords
    /\ matchCall[1].searchTitle = T_Show
    /\ i \in 1..Len(matchCall[1].historyMap)
    /\ TitleOf(matchCall[1].historyMap[i]) = T_show

-----------------------------------------------------------------------------
(* Matching a batch of search results against the history: the pre-pass      *)
(* that reserves the job ids of exact matches (IMPROVEMENTS.md, "Smart       *)
(* matching claiming exact match nzoIds").                                   *)

\* tokens.join(' ')
RECURSIVE Joined(_)
Joined(tokens) ==
    IF Len(tokens) <= 1 THEN tokens
    ELSE <<Head(tokens), " ">> \o Joined(Tail(tokens))

\* normalizeReleaseTitle(title): separators to one space, lower case
normalizeReleaseTitle(title) ==
    IF title = <<>> THEN <<>>
    ELSE LET tokens == Tokens(title)
         IN  Joined([i \in 1..Len(tokens) |-> toLowerCase(tokens[i])])

\* batches of search results: one or two different titles, in either order
ResultTitles == {T_Show, T_show, T_28full, T_28dvd, T_28days}

Batches ==
    {<<t>> : t \in ResultTitles} \cup {q \in ResultTitles \X ResultTitles : q[1] # q[2]}

\* thresholds of the smart matching of a batch: 0.5 and 0.6
BatchThresholds == {150, 180}

\* historyMap.get(normalizeReleaseTitle(title)): the entries under that key
ExactEntries(title, historyMap) ==
    SelectSeq(historyMap, LAMBDA h : h.normalizedTitle = normalizeReleaseTitle(title))

\* Mutant: no job id is reserved.
exactMatchNzoIds_None(results, historyMap) == {}

\* the pre-pass: the job ids of the history entries some result matches exactly
exactMatchNzoIds(results, historyMap) ==
    {ExactEntries(results[i], historyMap)[1].nzoId :
        i \in {j \in 1..Len(results) : ExactEntries(results[j], historyMap) # <<>>}}

\* what result i claims, given the job ids claimed by the results before it
ClaimOf(results, i, historyMap, minSimilarity, claimed) ==
    LET title == results[i]
        exact == ExactEntries(title, historyMap)
        free == SelectSeq(findMatchingHistoryItems(title, historyMap, minSimilarity, FALSE),
                          LAMBDA x : /\ x.entry.nzoId \notin claimed
                                     /\ x.entry.nzoId \notin exactMatchNzoIds(results, historyMap))
    IN  IF exact # <<>>
        THEN IF exact[1].nzoId \in claimed
             THEN [title |-> title, nzoId |-> "", kind |-> "none"]
             ELSE [title |-> title, nzoId |-> exact[1].nzoId, kind |-> "exact"]
        ELSE IF free # <<>>
        THEN [title |-> title, nzoId |-> free[1].entry.nzoId, kind |-> "smart"]
        ELSE [title |-> title, nzoId |-> "", kind |-> "none"]

\* the results are processed in their order
RECURSIVE ClaimsUpTo(_, _, _, _)
ClaimsUpTo(results, i, historyMap, minSimilarity) ==
    IF i = 0 THEN <<>>
    ELSE LET before == ClaimsUpTo(results, i - 1, historyMap, minSimilarity)
             claimed == {before[j].nzoId : j \in 1..Len(before)} \ {""}
         IN  Append(before, ClaimOf(results, i, historyMap, minSimilarity, claimed))

\* one batch of search results is matched against the history
TriageBatch(results, historyMap, minSimilarity) ==
    /\ triaged = <<>>
    /\ triaged' = <<[results |-> results, historyMap |-> historyMap,
                     minSimilarity |-> minSimilarity,
                     claims |-> ClaimsUpTo(results, Len(results), historyMap, minSimilarity)]>>
    /\ UNCHANGED <<blocklist, blocked, verdicts, matchCall, chain, healthVars>>

\* the batch has been answered
BatchDone ==
    /\ triaged # <<>>
    /\ triaged' = <<>>
    /\ UNCHANGED <<blocklist, blocked, verdicts, matchCall, chain, healthVars>>

NextTriage ==
    \/ \E b \in Batches, h \in HistoryMaps, m \in BatchThresholds : TriageBatch(b, h, m) /\ BlockFrame
    \/ BatchDone /\ BlockFrame

SpecTriage == InitCache /\ [][NextTriage]_vars

\* the job ids of the history entries whose key equals the normalized title of
\* some result of the batch
C23_ExactJobIds ==
    {triaged[1].historyMap[j].nzoId :
        j \in {k \in 1..Len(triaged[1].historyMap) :
                  \E i \in 1..Len(triaged[1].results) :
                      triaged[1].historyMap[k].normalizedTitle
                          = normalizeReleaseTitle(triaged[1].results[i])}}

\* C23: within one batch no result matched by similarity claims the job id of
\* a history entry whose normalized title equals the normalized title of some
\* result of the batch, in whatever order the results are iterated.
C23_FuzzyNeverClaimsExact ==
    triaged # <<>> =>
        \A i \in 1..Len(triaged[1].claims) :
            triaged[1].claims[i].kind = "smart" => triaged[1].claims[i].nzoId \notin C23_ExactJobIds

\* the similar result comes first and is refused the job id that the exact
\* result after it then claims
C23_Witness ==
    /\ triaged # <<>>
    /\ Len(triaged[1].claims) = 2
    /\ triaged[1].results[1] = T_Show
    /\ triaged[1].claims[1].kind = "none"
    /\ triaged[1].claims[2].kind = "exact"
    /\ triaged[1].claims[2].nzoId = "n1"

-----------------------------------------------------------------------------
(* The fallback chain of a playback request (IMPROVEMENTS.md, "Automatic     *)
(* fallback on failure"): on an explicit failure the next backup candidate   *)
(* that is not in the negative cache is tried, three attempts at most.       *)

\* "max 3 total attempts"
MaxPlaybackAttempts == 3

\* the candidates of a request: the download url and its backups, all different
CandidateLists ==
    {<<u>> : u \in Urls}
        \cup {q \in Urls \X Urls : q[1] # q[2]}
        \cup {q \in Urls \X Urls \X Urls : Cardinality({q[1], q[2], q[3]}) = 3}
        \cup {q \in Urls \X Urls \X Urls \X Urls : Cardinality({q[1], q[2], q[3], q[4]}) = 4}

NoPlayback == [state |-> "idle", candidates |-> <<>>, at |-> 0, tried |-> <<>>]

\* Mutant: another attempt is always allowed.
AttemptsLeft_Unbounded(tried) == TRUE

\* whether another attempt may follow the attempts made so far
AttemptsLeft(tried) == Len(tried) < MaxPlaybackAttempts

\* the candidates after position at that isDownloadUrlFailed does not know
Eligible(candidates, at) ==
    {j \in (at + 1)..Len(candidates) : FailedLookup(candidates[j]) = NoFailure}

\* a playback request arrives: the first attempt is on the download url
StartPlayback(candidates) ==
    /\ chain.state = "idle"
    /\ chain' = [state |-> "resolving", candidates |-> candidates, at |-> 1,
                 tried |-> <<candidates[1]>>]
    /\ UNCHANGED <<failedDownloadUrlCache, lookedUp>>

\* the attempt resolves to a stream
AttemptSucceeds ==
    /\ chain.state = "resolving"
    /\ chain' = [chain EXCEPT !.state = "served"]
    /\ UNCHANGED <<failedDownloadUrlCache, lookedUp>>

\* the attempt ends in an explicit failure: the url is marked failed and the
\* next candidate outside the negative cache is tried, if an attempt is left
AttemptFails(failureReason) ==
    LET eligible == Eligible(chain.candidates, chain.at)
        next == CHOOSE j \in eligible : \A k \in eligible : j <= k
    IN  /\ chain.state = "resolving"
        /\ failedDownloadUrlCache' =
               MarkedCache(cleanupNegativeCache(failedDownloadUrlCache),
                           chain.candidates[chain.at], failureReason, "")
        /\ lookedUp' = <<>>
        /\ chain' = IF AttemptsLeft(chain.tried) /\ eligible # {}
                    THEN [chain EXCEPT !.at = next,
                                       !.tried = Append(@, chain.candidates[next])]
                    ELSE [chain EXCEPT !.state = "failed"]

\* the attempt ends in an error that is no explicit failure: no fallback
AttemptErrors ==
    /\ chain.state = "resolving"
    /\ chain' = [chain EXCEPT !.state = "failed"]
    /\ UNCHANGED <<failedDownloadUrlCache, lookedUp>>

\* the response has been sent
PlaybackDone ==
    /\ chain.state \in {"served", "failed"}
    /\ chain' = NoPlayback
    /\ UNCHANGED <<failedDownloadUrlCache, lookedUp>>

FallbackFrame ==
    UNCHANGED <<cfgVars, cacheVars, trackerVars, wsVars, instantVars,
                blocklist, blocked, verdicts, matchCall, triaged, healthVars>>

NextFallback ==
    \/ \E c \in CandidateLists : StartPlayback(c) /\ FallbackFrame
    \/ AttemptSucceeds /\ FallbackFrame
    \/ AttemptFails("backend") /\ FallbackFrame
    \/ AttemptErrors /\ FallbackFrame
    \/ PlaybackDone /\ FallbackFrame
    \/ clearAllFailedDownloadUrls
          /\ UNCHANGED <<cacheVars, trackerVars, wsVars, instantVars, matchVars>>
    \/ \E h \in {"unset", "0"} :
          reloadNzbdavCacheConfig("unset", h) /\ lookedUp' = <<>>
          /\ UNCHANGED <<failedDownloadUrlCache, trackerVars, wsVars, instantVars, matchVars>>

SpecFallback == InitCache /\ [][NextFallback]_vars

\* one step of a playback request, as the claim describes it
C30_Step ==
    /\ Len(chain'.tried) <= 3
    /\ chain'.state = "resolving" =>
           \/ chain' = chain
           \/ chain.state = "idle" /\ Len(chain'.tried) = 1
           \/ /\ chain.state = "resolving"
              /\ Len(chain'.tried) = Len(chain.tried) + 1
              /\ chain'.at > chain.at
              /\ chain'.tried[Len(chain'.tried)] = chain.candidates[chain'.at]
              /\ failedDownloadUrlCache[chain.candidates[chain'.at]] = NoFailure
              /\ \A j \in (chain.at + 1)..(chain'.at - 1) :
                     failedDownloadUrlCache[chain.candidates[j]] # NoFailure
    /\ (chain.state = "resolving" /\ chain'.state = "resolving" /\ chain' # chain) =>
           failedDownloadUrlCache'[chain.candidates[chain.at]] # NoFailure
               \/ NEGATIVE_CACHE_TTL_MS <= 0
    /\ chain.state \in {"served", "failed"} => chain'.state \in {chain.state, "idle"}

\* C30: a playback request makes at most three resolution attempts in all,
\* each later attempt follows a failed one and uses the next backup candidate
\* that is not in the negative cache, and a request that has failed (the
\* bound or the candidates exhausted) makes no further attempt.
C30_FallbackBounded == [][C30_Step]_vars

\* three attempts have failed and the request has ended in failure although a
\* fourth candidate, not in the negative cache, is left
C30_Witness ==
    /\ chain.state = "failed"
    /\ Len(chain.tried) = 3
    /\ Len(chain.candidates) = 4
    /\ chain.at = 3
    /\ failedDownloadUrlCache[chain.candidates[4]] = NoFailure

-----------------------------------------------------------------------------
(* Health checks (src/health/index.js): the NNTP connection probe of         *)
(* checkUsenet and the overall status of runHealthChecks.                    *)

criticalServices == {"nzbdav_api", "nzbdav_webdav"}

\* Object.keys(checks)
allServices == {"nzbdav_api", "nzbdav_webdav", "indexer", "cinemeta", "tmdb", "usenet"}

\* the results the checks other than checkUsenet can give: checkCinemeta has
\* nothing to configure
OtherChecks ==
    {c \in [allServices \ {"usenet"} -> {"up", "down", "unconfigured"}] :
        c["cinemeta"] # "unconfigured"}

determineOverallStatus(checks) ==
    LET downCount == Cardinality({n \in allServices : checks[n] = "down"})
        criticalDown == \E n \in criticalServices : checks[n] = "down"
        configuredCount == Cardinality({n \in allServices : checks[n] # "unconfigured"})
    IN  IF criticalDown THEN "unhealthy"
        ELSE IF downCount > 0 THEN "degraded"
        ELSE IF configuredCount < 2 THEN "degraded"
        ELSE "healthy"

NoProbe ==
    [phase |-> "none", settled |-> FALSE, reachedReady |-> FALSE, timer |-> FALSE,
     listeners |-> {}, streamListener |-> FALSE, outcome |-> "none", message |-> "",
     settles |-> 0, ended |-> 0, first |-> "", unhandled |-> FALSE]

\* finalize(err) of lines 283-299; err "" stands for null
finalize(p, err) ==
    IF p.settled THEN p
    ELSE [p EXCEPT !.settled = TRUE,
                   !.timer = FALSE,
                   !.listeners = {},
                   !.streamListener = FALSE,
                   !.ended = @ + 1,
                   !.outcome = IF err # "" THEN "rejected" ELSE "resolved",
                   !.message = err,
                   !.settles = @ + 1]

\* the first of the events of a probe
Noted(p, event) == IF p.first = "" THEN [p EXCEPT !.first = event] ELSE p

\* what checkUsenet returns once the promise has settled
UsenetStatus(p) ==
    CASE p.phase = "unconfigured" -> "unconfigured"
      [] p.outcome = "rejected"   -> "down"
      [] OTHER                    -> "up"

\* checkUsenet(config) up to the end of the promise executor: without a host
\* it returns at once; else the timer and the listeners are set and
\* client.connect either throws, returns a stream or returns nothing
checkUsenet(outcome) ==
    LET started == [NoProbe EXCEPT !.phase = "open", !.timer = TRUE,
                                   !.listeners = {"ready", "error", "close"}]
    IN  /\ probe.phase \in {"none", "unconfigured"} \/ probe.settled
        /\ probe' = CASE outcome = "nohost" -> [NoProbe EXCEPT !.phase = "unconfigured"]
                      [] outcome = "throws" -> finalize(Noted(started, "error"), "connect failed")
                      [] outcome = "stream" -> [started EXCEPT !.streamListener = TRUE]
                      [] OTHER              -> started
        /\ overall' = <<>>

\* client.emit(event) for ready, error and close: a listener registered with
\* once is removed and called; an 'error' event without a listener is thrown
\* by emit
Emit(event) ==
    LET p == Noted(probe, event)
        q == [p EXCEPT !.listeners = @ \ {event}]
    IN  /\ probe.phase = "open"
        /\ probe' =
               IF event \in probe.listeners
               THEN CASE event = "ready" -> finalize([q EXCEPT !.reachedReady = TRUE], "")
                      [] event = "error" -> finalize(q, "NNTP error")
                      [] OTHER           -> IF ~q.settled THEN finalize(q, "Connection closed") ELSE q
               ELSE IF event = "error" THEN [p EXCEPT !.unhandled = TRUE]
               ELSE p
        /\ UNCHANGED overall

\* the stream returned by client.connect emits 'error'
StreamError ==
    /\ probe.phase = "open"
    /\ probe.streamListener
    /\ probe' = finalize(Noted(probe, "error"), "NNTP error")
    /\ UNCHANGED overall

\* the timer of line 314 fires
ProbeTimerFires ==
    /\ probe.phase = "open"
    /\ probe.timer
    /\ probe' = finalize([Noted(probe, "timeout") EXCEPT !.timer = FALSE], "Connection timed out")
    /\ UNCHANGED overall

\* runHealthChecks once all six checks have answered
runHealthChecks(others) ==
    LET checks == [n \in allServices |-> IF n = "usenet" THEN UsenetStatus(probe) ELSE others[n]]
    IN  /\ probe.phase = "unconfigured" \/ probe.settled
        /\ overall = <<>>
        /\ overall' = <<[checks |-> checks, status |-> determineOverallStatus(checks)]>>
        /\ UNCHANGED probe

HealthFrame ==
    UNCHANGED <<cfgVars, cacheVars, negVars, trackerVars, wsVars, instantVars,
                blocklist, blocked, verdicts, matchCall, triaged, chain>>

NextHealth ==
    \/ \E c \in {"nohost", "throws", "stream", "nothing"} : checkUsenet(c) /\ HealthFrame
    \/ \E e \in {"ready", "error", "close"} : Emit(e) /\ HealthFrame
    \/ StreamError /\ HealthFrame
    \/ ProbeTimerFires /\ HealthFrame
    \/ \E o \in OtherChecks : runHealthChecks(o) /\ HealthFrame

SpecHealth == InitCache /\ [][NextHealth]_vars

\* C31: determineOverallStatus returns 'unhealthy' when nzbdav_api or
\* nzbdav_webdav is down, else 'degraded' when some other dependency is down
\* or unconfigured, else 'healthy', for every combination of statuses.
C31_OverallStatus ==
    overall # <<>> =>
        overall[1].status =
            IF \E n \in criticalServices : overall[1].checks[n] = "down" THEN "unhealthy"
            ELSE IF \E n \in allServices \ criticalServices :
                        overall[1].checks[n] \in {"down", "unconfigured"}
            THEN "degraded"
            ELSE "healthy"

\* C39: the connection probe of checkUsenet is finalized exactly once under
\* every ordering of the ready, error, close and timeout events: the promise
\* settles once, at the first event the timer is cleared and the listeners are
\* removed, later events have no effect (none is left unhandled), and the
\* status is 'up' exactly when ready is the first event.
C39_FinalizedOnce ==
    probe.phase = "open" =>
        /\ probe.settles <= 1
        /\ (probe.first # "") <=> probe.settled
        /\ probe.settled => ~probe.timer /\ probe.listeners = {} /\ ~probe.streamListener
        /\ ~probe.unhandled
        /\ (probe.settled /\ UsenetStatus(probe) = "up") <=> (probe.first = "ready")

\* the status of key k's entry changes from s to t in this step
C32_Changes(k, s, t) ==
    nzbdavStreamCache[k].status = s /\ nzbdavStreamCache'[k].status = t

\* C32: every change of a key's resolution-cache entry is a transition of the
\* documented state machine; in particular no entry goes directly from ready
\* to failed, from failed to ready, or from none to ready, under any
\* interleaving of resolves, builder completions and clears.
C32_OnlyDocumentedTransitions ==
    [][\A k \in CacheKeys :
          /\ ~C32_Changes(k, "ready", "failed")
          /\ ~C32_Changes(k, "failed", "ready")
          /\ ~C32_Changes(k, "none", "ready")]_vars

\* a builder ends with an error that is neither an explicit backend failure
\* nor a timeout
C33_OtherErrorStep ==
    \A a \in DOMAIN attempts \ DOMAIN attempts' :
        (returned' # <<>> /\ returned'[1].result = Rejected(a, "other")) =>
            /\ Len(returned') = attempts[a].joined + 1
            /\ \A i \in DOMAIN returned' : returned'[i].result = Rejected(a, "other")
            /\ nzbdavStreamCache'[attempts[a].key] = NoEntry
            /\ StartsNewAttempt(cleanupNzbdavCache(nzbdavStreamCache')[attempts[a].key])

\* C33: when the builder fails with an error that is neither an explicit
\* backend failure nor a timeout, every caller of the attempt gets the error
\* and the key's entry is removed, so that the next call for the key invokes
\* the builder again; and a pending entry never outlives its builder.
C33_OtherErrorRemovesEntry ==
    [][/\ C33_OtherErrorStep
       /\ \A k \in CacheKeys :
              nzbdavStreamCache'[k].status = "pending" =>
                  /\ nzbdavStreamCache'[k].by \in DOMAIN attempts'
                  /\ attempts'[nzbdavStreamCache'[k].by].key = k]_vars

\* the call that ran the builder and a call that joined it both got the error,
\* and the key has no entry
C33_Witness ==
    /\ Len(returned) = 2
    /\ returned[1].invoked /\ ~returned[2].invoked
    /\ returned[1].result = Rejected(1, "other")
    /\ returned[2].result = Rejected(1, "other")
    /\ nzbdavStreamCache[returned[1].key] = NoEntry

\* the keys whose timeout_pending entry is 10 minutes old or older
C34_Overdue ==
    {k \in CacheKeys : /\ nzbdavStreamCache[k].status = "timeout_pending"
                       /\ nzbdavStreamCache[k].expiresAt <= now}

\* a lookup of such a key starts attempt a, which records what the lookup
\* found under the key after cleanupNzbdavCache
C34_LookupStep ==
    \A k \in C34_Overdue :
        LET a == builderCalls + 1
        IN  (builderCalls' = a /\ attempts'[a].key = k) => attempts'[a].found = "none"

\* C34: a timeout_pending entry has its own ttl of 10 minutes, whatever the
\* configured ttl of the cache, zero included: once 10 minutes have passed
\* since the timeout the entry is removed, so that a lookup finds the key
\* without an entry.
C34_TimeoutPendingExpires == [][C34_LookupStep]_vars

\* the same with a positive ttl configured
C34_ExpiresUnderPositiveTtl == [][NZBDAV_CACHE_TTL_MS > 0 => C34_LookupStep]_vars

-----------------------------------------------------------------------------
(* The negative cache next to the resolution cache, with a positive ttl *)

\* the clock advances by ms
Elapse(ms) ==
    /\ now + ms <= MaxTicks * TickMs
    /\ now' = now + ms
    /\ returned' = <<>>
    /\ UNCHANGED <<NZBDAV_CACHE_TTL_MS, NEGATIVE_CACHE_TTL_MS, nzbdavStreamCache,
                   builderCalls, attempts, histVars>>

NegFrame == UNCHANGED <<trackerVars, wsVars, instantVars, matchVars>>

\* the number of resolutions started next to the negative cache
MaxResolves == 1

\* the failures marked: one url with an error code, one without
Marks == {<<"u1", "NO_VIDEO_FILES">>, <<"u2", "">>}

NextNegativeFrame ==
    \/ \E mk \in Marks :
          markDownloadUrlFailed(mk[1], "backend", mk[2]) /\ UNCHANGED cacheVars /\ NegFrame
    \/ \E u \in RequestedUrls : isDownloadUrlFailed(u) /\ UNCHANGED cacheVars /\ NegFrame
    \/ \E u \in RequestedUrls : clearFailedDownloadUrl(u) /\ UNCHANGED cacheVars /\ NegFrame
    \/ /\ builderCalls < MaxResolves
             \/ ~StartsNewAttempt(cleanupNzbdavCache(nzbdavStreamCache)[TtlKey])
       /\ getOrCreateNzbdavStream(TtlKey)
       /\ lookedUp' = <<>> /\ UNCHANGED failedDownloadUrlCache /\ NegFrame
    \/ \E a \in 1..MaxAttempts : BuilderFulfils(a)
          /\ lookedUp' = <<>> /\ UNCHANGED failedDownloadUrlCache /\ NegFrame
    \/ CleanupNzbdavCache /\ lookedUp' = <<>> /\ UNCHANGED failedDownloadUrlCache /\ NegFrame
    \/ clearNzbdavStreamCache /\ lookedUp' = <<>> /\ UNCHANGED failedDownloadUrlCache /\ NegFrame
    \/ reloadNzbdavCacheConfig("5", "0.1")
          /\ lookedUp' = <<>> /\ UNCHANGED failedDownloadUrlCache /\ NegFrame
    \/ \E ms \in {TickMs, 6 * 60 * 1000} :
          Elapse(ms) /\ lookedUp' = <<>> /\ UNCHANGED failedDownloadUrlCache /\ NegFrame

SpecNegativeFrame == InitCache /\ [][NextNegativeFrame]_vars

\* what the claim has isDownloadUrlFailed(u) return
C35_Expected(u) ==
    IF failedDownloadUrlCache[u] # NoFailure /\ now < failedDownloadUrlCache[u].expiresAt
    THEN failedDownloadUrlCache[u]
    ELSE NoFailure

C35_Step ==
    /\ \A u \in RequestedUrls, c \in FailureCodes :
          (<<u, c>> \in Marks /\ markDownloadUrlFailed(u, "backend", c)) =>
              /\ failedDownloadUrlCache'[u].failureReason = "backend"
              /\ failedDownloadUrlCache'[u].errorCode = c
              /\ failedDownloadUrlCache'[u].expiresAt = now + NEGATIVE_CACHE_TTL_MS
              /\ \A v \in Urls \ {u} : failedDownloadUrlCache'[v] = failedDownloadUrlCache[v]
    /\ lookedUp' # <<>> => lookedUp'[1].entry = C35_Expected(lookedUp'[1].url)
    /\ \A u \in RequestedUrls :
          clearFailedDownloadUrl(u) =>
              /\ failedDownloadUrlCache'[u] = NoFailure
              /\ \A v \in Urls \ {u} : failedDownloadUrlCache'[v] = failedDownloadUrlCache[v]
    /\ (nzbdavStreamCache' # nzbdavStreamCache \/ attempts' # attempts)
          => failedDownloadUrlCache' = failedDownloadUrlCache

\* C35: with a positive negative-cache ttl, markDownloadUrlFailed(R, reason,
\* code) stores the reason and the code, isDownloadUrlFailed(R) returns them
\* at every time strictly before the entry's expiry and null from the expiry
\* time on, clearFailedDownloadUrl(R) removes the entry of R only, and a
\* resolve, an expiry or a clear of the resolution cache leaves the negative
\* entries unchanged.
C35_NegativeEntries ==
    /\ [](NEGATIVE_CACHE_TTL_MS > 0)
    /\ [][C35_Step]_vars

\* a lookup after some time returns the stored code while the other url's
\* entry is gone and the resolution cache has resolved its key
C35_Witness ==
    /\ lookedUp # <<>>
    /\ lookedUp[1].entry.errorCode = "NO_VIDEO_FILES"
    /\ lookedUp[1].entry.failedAt < now
    /\ \E v \in RequestedUrls \ {lookedUp[1].url} : failedDownloadUrlCache[v] = NoFailure
    /\ nzbdavStreamCache[TtlKey].status = "ready"

-----------------------------------------------------------------------------
(* Expiry of the entries of the instant cache *)

\* the entry is older than the ttl
C36_TooOld(entry) == DateNow - entry.cachedAt > INSTANT_CACHE_TTL_MS

\* what getInstantCacheEntry(c) does to the object in memory and returns
C36_Memory(c) ==
    LET cache == getInstantCache
        k == KeyOf(c)
    IN  /\ instantCache'.loaded
        /\ IF k \in DOMAIN cache /\ C36_TooOld(cache[k])
           THEN /\ instantReturned' = NoInstantEntry
                /\ instantCache'.object = DeleteKey(cache, k)
           ELSE /\ instantReturned' = IF k \in DOMAIN cache THEN <<cache[k]>> ELSE NoInstantEntry
                /\ instantCache'.object = cache

\* the file after getInstantCacheEntry(c), as the claim has it: the key of an
\* entry that is too old is gone and nothing else has changed
C36_FileAsStated(c) ==
    LET cache == getInstantCache
        k == KeyOf(c)
        before == ObjectLoaded(instantFile)
        after == ObjectLoaded(instantFile')
    IN  IF k \in DOMAIN cache /\ C36_TooOld(cache[k])
        THEN C19_SameObject(after, DeleteKey(before, k))
        ELSE instantFile' = instantFile

\* the file after getInstantCacheEntry(c): the map in memory when an entry
\* was removed and the write did not throw
C36_File(c) ==
    LET cache == getInstantCache
        k == KeyOf(c)
    IN  IF k \in DOMAIN cache /\ C36_TooOld(cache[k])
        THEN ~saveFailed' => C19_SameObject(ObjectLoaded(instantFile'), DeleteKey(cache, k))
        ELSE instantFile' = instantFile

-----------------------------------------------------------------------------
(* Reconnection: the timer set by scheduleReconnect fires once its delay    *)
(* has elapsed.                                                             *)

SpecSocketFair == InitCache /\ [][NextSocket]_vars /\ WF_vars(ReconnectTimerFires)

\* a close arms the one reconnect timer, and a connection attempt leaves no
\* timer behind that would make another
C37_Step ==
    /\ (ws # 0 /\ ws' = 0) => reconnectTimer' # 0 /\ pendingTimers' = 1
    /\ socketsMade' # socketsMade =>
           /\ socketsMade' = socketsMade + 1
           /\ ws' = socketsMade'
           /\ reconnectTimer' = 0 /\ pendingTimers' = 0

\* C37: after every close of the connection, whether it had opened or not,
\* one new connection attempt is eventually made, so that the client does not
\* stay without a socket (as far as the sockets of the model go).
C37_CloseLeadsToReconnect ==
    /\ \A n \in 1..(MaxSockets - 1) :
          (socketsMade = n /\ ws = 0) ~> (socketsMade = n + 1 /\ ws = n + 1)
    /\ [][C37_Step]_vars

\* the reconnect after a close of a socket that never opened has been made
\* after the reconnect after a close of one that had
C37_Witness ==
    /\ socketsMade = 3
    /\ ws = 3
    /\ consecutiveFailures = 1
    /\ failuresBeforeOpen = 1
    /\ reconnectTimer = 0 /\ pendingTimers = 0

-----------------------------------------------------------------------------
(* Two waiters for one job id *)

\* the timer of waiter w fires
C38_TimerOf(w) ==
    /\ waiterPromises[w].timer = "armed"
    /\ waiterPromises'[w].timer = "fired"

\* C38: registering a second waiter for a job id that has a pending waiter
\* leaves the map sound: the deadline timer of a waiter removes the
\* registration of that waiter only, so that a later waiter for the job id
\* stays registered until it is itself resolved, rejected, cancelled or timed
\* out.
C38_TimerRemovesOwnRegistration ==
    [][\A w \in DOMAIN waiterPromises :
           C38_TimerOf(w) =>
               \A n \in NzoIds : waiters[n] # w => waiters'[n] = waiters[n]]_vars

====
